---- MODULE Spec2Model ----
(***************************************************************************)
(* sBTC DeFi Intelligence API (src/src/index.ts): the payment gate of the  *)
(* priced endpoints.  A request is handled by one handler invocation; the  *)
(* handler runs atomically between two awaits, so each action below is one *)
(* such segment.  Several requests are in flight at once and interleave at *)
(* their awaits (ledger lookup, upstream data fetches).                    *)
(*                                                                         *)
(* Representation of JavaScript values:                                    *)
(*  - strings the code inspects character by character (header and query   *)
(*    values, transaction ids, names that are searched) are sequences of   *)
(*    characters;                                                          *)
(*  - other strings are TLA+ strings;                                      *)
(*  - undefined is Undefined (for character sequences) or UndefinedStr;    *)
(*  - an optional number that the code only tests for truthiness is a      *)
(*    natural number, 0 standing for both 0 and undefined.                 *)
(***************************************************************************)
EXTENDS Integers, Sequences, FiniteSets, Bags, TLC

VARIABLES
    reqs,       \* slot -> the request being handled in that slot
    served,     \* number of requests that have arrived so far
    call        \* one direct call of paymentRequired: its arguments and result

vars == <<reqs, served, call>>

----------------------------------------------------------------------------
(* Bounds of the model *)

\* total number of requests that arrive in one behaviour
MaxRequests == 2

\* the requests that can be in flight at the same time
Slots == {"r1", "r2"}

\* requests that wait for upstream data at the same time
MaxGathering == 1

----------------------------------------------------------------------------
(* JavaScript values *)

Undefined == <<"<undefined>">>
UndefinedStr == "<undefined>"

\* JS truthiness of a string-or-undefined value: undefined and "" are falsy
Truthy(v) == v # Undefined /\ v # <<>>

\* A character is a one-character string; a character outside ASCII is
\* written as its code point, "U+017F" being the long s.
LowerChars == <<"a","b","c","d","e","f","g","h","i","j","k","l","m",
                "n","o","p","q","r","s","t","u","v","w","x","y","z">>
UpperChars == <<"A","B","C","D","E","F","G","H","I","J","K","L","M",
                "N","O","P","Q","R","S","T","U","V","W","X","Y","Z">>

\* String.prototype.toUpperCase on a one-character string: the Unicode
\* upper-case mapping, which can give several characters.  Outside ASCII
\* the characters whose mapping the model knows are
\*   U+017F long s -> S          U+00DF sharp s -> SS
\*   U+FB05 ligature long s t -> ST
\*   U+0131 dotless i -> I       U+00E9 e acute -> U+00C9
\* U+212A (Kelvin sign) and U+0130 (capital I with dot) are upper case.
toUpperChar(ch) ==
    IF \E i \in 1..26 : LowerChars[i] = ch
    THEN <<UpperChars[CHOOSE i \in 1..26 : LowerChars[i] = ch]>>
    ELSE CASE ch = "U+017F" -> <<"S">>
           [] ch = "U+00DF" -> <<"S", "S">>
           [] ch = "U+FB05" -> <<"S", "T">>
           [] ch = "U+0131" -> <<"I">>
           [] ch = "U+00E9" -> <<"U+00C9">>
           [] OTHER         -> <<ch>>

\* String.prototype.toUpperCase
RECURSIVE toUpperCase(_)
toUpperCase(s) ==
    IF s = <<>> THEN <<>> ELSE toUpperChar(Head(s)) \o toUpperCase(Tail(s))

\* String.prototype.toLowerCase on a one-character string: the Unicode
\* lower-case mapping.  Outside ASCII:
\*   U+212A Kelvin sign -> k     U+0130 capital I with dot -> i U+0307
\*   U+00C9 E acute -> U+00E9
\* U+017F, U+00DF, U+FB05 and U+0131 are lower case.
toLowerChar(ch) ==
    IF \E i \in 1..26 : UpperChars[i] = ch
    THEN <<LowerChars[CHOOSE i \in 1..26 : UpperChars[i] = ch]>>
    ELSE CASE ch = "U+212A" -> <<"k">>
           [] ch = "U+0130" -> <<"i", "U+0307">>
           [] ch = "U+00C9" -> <<"U+00E9">>
           [] OTHER         -> <<ch>>

\* String.prototype.toLowerCase
RECURSIVE toLowerCase(_)
toLowerCase(s) ==
    IF s = <<>> THEN <<>> ELSE toLowerChar(Head(s)) \o toLowerCase(Tail(s))

\* String.prototype.startsWith
startsWith(s, prefix) ==
    /\ Len(s) >= Len(prefix)
    /\ SubSeq(s, 1, Len(prefix)) = prefix

\* String.prototype.includes
includes(s, sub) ==
    \E i \in 0..(Len(s) - Len(sub)) : SubSeq(s, i + 1, i + Len(sub)) = sub

----------------------------------------------------------------------------
(* Configuration (index.ts:8-34) *)

CONTRACT == [
    address           |-> "SPP5ZMH9NQDFD2K5CEQZ6P02AP8YPWMQ75TJW20M",
    name              |-> "simple-oracle",
    standardPrice     |-> 2000,
    premiumPrice      |-> 5000,
    standardPriceSbtc |-> 2,
    premiumPriceSbtc  |-> 5,
    recipient         |-> "SPKH9AWG0ENZ87J1X0PBD4HETP22G8W22AFNVF8K" ]

SBTC == [
    token   |-> "SM3VDXK3WZZSA84XXFKAFAF15NNZX32CTSG82JFQ4.sbtc-token",
    deposit |-> "SM3KNVZS30WM7F89SXKVVFY4SN9RMPZZ9FX929N0V.sbtc-deposit" ]

----------------------------------------------------------------------------
(* Token-type selection (index.ts:20-25) *)

STX_STR  == <<"S","T","X">>
SBTC_UP  == <<"S","B","T","C">>

\* a || b on string-or-undefined operands
JsOr(a, b) == IF Truthy(a) THEN a ELSE b

getPaymentTokenType_CaseSensitive(headerToken, queryToken) ==
    LET tokenStr == JsOr(headerToken, JsOr(queryToken, STX_STR))
    IN  IF tokenStr = SBTC_UP THEN "sBTC" ELSE "STX"

getPaymentTokenType(headerToken, queryToken) ==
    LET tokenStr == toUpperCase(JsOr(headerToken, JsOr(queryToken, STX_STR)))
    IN  IF tokenStr = SBTC_UP THEN "sBTC" ELSE "STX"

----------------------------------------------------------------------------
(* 402 challenge (index.ts:65-122) *)

Digits == <<"0","1","2","3","4","5","6","7","8","9">>

\* Number.prototype.toString for a non-negative integer
RECURSIVE numberToString(_)
numberToString(n) ==
    IF n < 10 THEN Digits[n + 1]
    ELSE numberToString(n \div 10) \o Digits[(n % 10) + 1]

\* Math.ceil(a / b) for a >= 0, b > 0
ceilDiv_Floor(a, b) == a \div b

ceilDiv(a, b) == (a + b - 1) \div b

paymentRequired_ShortSbtcExpiry(headerToken, queryToken, resource, price, sbtcPrice, now, uuid) ==
    LET tokenType == getPaymentTokenType(headerToken, queryToken)
        nonce     == uuid
        expiresAt == now + 10 * 60 * 1000
    IN  IF tokenType = "sBTC" /\ sbtcPrice # 0
        THEN [ status |-> 402,
               json   |-> [ error             |-> "Payment Required",
                            code              |-> "PAYMENT_REQUIRED",
                            resource          |-> resource,
                            nonce             |-> nonce,
                            expiresAt         |-> now + 5 * 60 * 1000,
                            network           |-> "mainnet",
                            maxAmountRequired |-> numberToString(sbtcPrice),
                            payTo             |-> CONTRACT.recipient,
                            tokenType         |-> "sBTC",
                            tokenContract     |-> SBTC,
                            instructions      |-> <<"sign-transfer",
                                                    "include-signed-hex",
                                                    "broadcast-and-verify">> ] ]
        ELSE [ status |-> 402,
               json   |-> [ error          |-> "Payment Required",
                            code           |-> "PAYMENT_REQUIRED",
                            resource       |-> resource,
                            nonce          |-> nonce,
                            expiresAt      |-> expiresAt,
                            network        |-> "mainnet",
                            payment        |-> [ contract  |-> CONTRACT.address \o "." \o CONTRACT.name,
                                                 function  |-> "call-with-stx",
                                                 price     |-> price,
                                                 token     |-> "STX",
                                                 recipient |-> CONTRACT.recipient ],
                            paymentOptions |-> [ stx  |-> [ price  |-> price,
                                                            method |-> "contract-call" ],
                                                 sbtc |-> [ price  |-> IF sbtcPrice # 0
                                                                       THEN sbtcPrice
                                                                       ELSE ceilDiv(price, 1000),
                                                            method |-> "direct-transfer",
                                                            tokenContract |-> SBTC ] ],
                            instructions   |-> <<"call-contract",
                                                 "wait-confirmation",
                                                 "retry-with-txid">> ] ]

paymentRequired_PeggedWithoutPrice(headerToken, queryToken, resource, price, sbtcPrice, now, uuid) ==
    LET tokenType == getPaymentTokenType(headerToken, queryToken)
        nonce     == uuid
        expiresAt == now + 10 * 60 * 1000
    IN  IF tokenType = "sBTC"
        THEN [ status |-> 402,
               json   |-> [ error             |-> "Payment Required",
                            code              |-> "PAYMENT_REQUIRED",
                            resource          |-> resource,
                            nonce             |-> nonce,
                            expiresAt         |-> expiresAt,
                            network           |-> "mainnet",
                            maxAmountRequired |-> numberToString(IF sbtcPrice # 0
                                                                 THEN sbtcPrice
                                                                 ELSE ceilDiv(price, 1000)),
                            payTo             |-> CONTRACT.recipient,
                            tokenType         |-> "sBTC",
                            tokenContract     |-> SBTC,
                            instructions      |-> <<"sign-transfer",
                                                    "include-signed-hex",
                                                    "broadcast-and-verify">> ] ]
        ELSE [ status |-> 402,
               json   |-> [ error          |-> "Payment Required",
                            code           |-> "PAYMENT_REQUIRED",
                            resource       |-> resource,
                            nonce          |-> nonce,
                            expiresAt      |-> expiresAt,
                            network        |-> "mainnet",
                            payment        |-> [ contract  |-> CONTRACT.address \o "." \o CONTRACT.name,
                                                 function  |-> "call-with-stx",
                                                 price     |-> price,
                                                 token     |-> "STX",
                                                 recipient |-> CONTRACT.recipient ],
                            paymentOptions |-> [ stx  |-> [ price  |-> price,
                                                            method |-> "contract-call" ],
                                                 sbtc |-> [ price  |-> IF sbtcPrice # 0
                                                                       THEN sbtcPrice
                                                                       ELSE ceilDiv(price, 1000),
                                                            method |-> "direct-transfer",
                                                            tokenContract |-> SBTC ] ],
                            instructions   |-> <<"call-contract",
                                                 "wait-confirmation",
                                                 "retry-with-txid">> ] ]

\* `now` is Date.now() in ms and `uuid` the value of crypto.randomUUID();
\* sbtcPrice = 0 stands for an omitted (or zero) sbtcPrice argument.
\* expiresAt is kept as the epoch-ms instant that toISOString() renders.
paymentRequired(headerToken, queryToken, resource, price, sbtcPrice, now, uuid) ==
    LET tokenType == getPaymentTokenType(headerToken, queryToken)
        nonce     == uuid
        expiresAt == now + 10 * 60 * 1000
    IN  IF tokenType = "sBTC" /\ sbtcPrice # 0
        THEN [ status |-> 402,
               json   |-> [ error             |-> "Payment Required",
                            code              |-> "PAYMENT_REQUIRED",
                            resource          |-> resource,
                            nonce             |-> nonce,
                            expiresAt         |-> expiresAt,
                            network           |-> "mainnet",
                            maxAmountRequired |-> numberToString(sbtcPrice),
                            payTo             |-> CONTRACT.recipient,
                            tokenType         |-> "sBTC",
                            tokenContract     |-> SBTC,
                            instructions      |-> <<"sign-transfer",
                                                    "include-signed-hex",
                                                    "broadcast-and-verify">> ] ]
        ELSE [ status |-> 402,
               json   |-> [ error          |-> "Payment Required",
                            code           |-> "PAYMENT_REQUIRED",
                            resource       |-> resource,
                            nonce          |-> nonce,
                            expiresAt      |-> expiresAt,
                            network        |-> "mainnet",
                            payment        |-> [ contract  |-> CONTRACT.address \o "." \o CONTRACT.name,
                                                 function  |-> "call-with-stx",
                                                 price     |-> price,
                                                 token     |-> "STX",
                                                 recipient |-> CONTRACT.recipient ],
                            paymentOptions |-> [ stx  |-> [ price  |-> price,
                                                            method |-> "contract-call" ],
                                                 sbtc |-> [ price  |-> IF sbtcPrice # 0
                                                                       THEN sbtcPrice
                                                                       ELSE ceilDiv(price, 1000),
                                                            method |-> "direct-transfer",
                                                            tokenContract |-> SBTC ] ],
                            instructions   |-> <<"call-contract",
                                                 "wait-confirmation",
                                                 "retry-with-txid">> ] ]

----------------------------------------------------------------------------
(* The ledger: the indexing service's GET /extended/v1/tx/{txid}            *)
(* (index.ts:27, 128-131).  What fetch() and response.json() give the code: *)
(*   rejected : fetch() threw (network error)                               *)
(*   ok       : response.ok                                                 *)
(*   body     : "object" (json() gives tx), "null" (json() gives null),     *)
(*              "invalid" (the body is <html>oops</html>: json() throws),   *)
(*              "empty" (the body has no bytes: json() throws),             *)
(*              "none" (no body was read), "pending" (not yet received)     *)
(*   tx       : the parsed transaction; a field the object lacks is         *)
(*              UndefinedStr (contract_id: tx.contract_call?.contract_id)   *)

NoTx == [ tx_status |-> UndefinedStr, tx_type |-> UndefinedStr,
          contract_id |-> UndefinedStr, sender_address |-> UndefinedStr ]

NetworkError == [ rejected |-> TRUE,  ok |-> FALSE, body |-> "none",    tx |-> NoTx ]
HttpNotOk    == [ rejected |-> FALSE, ok |-> FALSE, body |-> "none",    tx |-> NoTx ]
InvalidJson  == [ rejected |-> FALSE, ok |-> TRUE,  body |-> "invalid", tx |-> NoTx ]
EmptyJson    == [ rejected |-> FALSE, ok |-> TRUE,  body |-> "empty",   tx |-> NoTx ]
NullJson     == [ rejected |-> FALSE, ok |-> TRUE,  body |-> "null",    tx |-> NoTx ]
Found(tx)    == [ rejected |-> FALSE, ok |-> TRUE,  body |-> "object",  tx |-> tx ]
EmptyObject  == Found(NoTx)     \* the body is {}

NoResponse   == [ rejected |-> FALSE, ok |-> FALSE, body |-> "pending", tx |-> NoTx ]

\* fetch() has resolved with response.ok, response.json() is pending
HeadersOk    == [ rejected |-> FALSE, ok |-> TRUE,  body |-> "pending", tx |-> NoTx ]

\* the text `${error}` renders for what the try block can throw
\* (index.ts:140), as the V8 runtime words it: fetch() rejecting,
\* response.json() on the two unparsable bodies, tx.tx_status on null
thrownText(response) ==
    IF response.rejected THEN "TypeError: fetch failed"
    ELSE IF response.body = "invalid"
    THEN "SyntaxError: Unexpected token '<', \"<html>oops</html>\" is not valid JSON"
    ELSE IF response.body = "empty"
    THEN "SyntaxError: Unexpected end of JSON input"
    ELSE "TypeError: Cannot read properties of null (reading 'tx_status')"

----------------------------------------------------------------------------
(* Payment verification (index.ts:125-142) *)

HEX_PREFIX == <<"0","x">>

\* index.ts:127
normalizeTxid_AlwaysPrefix(txid) == HEX_PREFIX \o txid

normalizeTxid(txid) == IF startsWith(txid, HEX_PREFIX) THEN txid ELSE HEX_PREFIX \o txid

NoVerification == [ rejected |-> FALSE, valid |-> FALSE,
                    error |-> "<pending>", caller |-> UndefinedStr ]

Invalid(reason) == [ rejected |-> FALSE, valid |-> FALSE,
                     error |-> reason, caller |-> UndefinedStr ]

\* `${value}` in a template literal
templateText(value) == IF value = UndefinedStr THEN "undefined" ELSE value

\* what the catch block returns (index.ts:139-141)
Caught_Rethrow(response) ==
    [ rejected |-> TRUE, valid |-> FALSE,
      error |-> thrownText(response), caller |-> UndefinedStr ]

Caught_AsNotFound(response) == Invalid("Transaction not found")

Caught(response) == Invalid("Verification failed: " \o thrownText(response))

Verified(tx) == [ rejected |-> FALSE, valid |-> TRUE,
                  error |-> UndefinedStr, caller |-> tx.sender_address ]

verifyPayment_SameReason(txid, response) ==
    IF response.rejected THEN Caught(response)
    ELSE IF ~response.ok THEN Invalid("Transaction not found")
    ELSE IF response.body # "object" THEN Caught(response)
    ELSE LET tx == response.tx
             expectedContract == CONTRACT.address \o "." \o CONTRACT.name
         IN  IF tx.tx_status # "success"
             THEN Invalid("Transaction status: " \o templateText(tx.tx_status))
             ELSE IF tx.tx_type # "contract_call" THEN Invalid("Not a contract call")
             ELSE IF tx.contract_id # expectedContract THEN Invalid("Not a contract call")
             ELSE Verified(tx)

verifyPayment_NoTargetCheck(txid, response) ==
    IF response.rejected THEN Caught(response)
    ELSE IF ~response.ok THEN Invalid("Transaction not found")
    ELSE IF response.body # "object" THEN Caught(response)
    ELSE LET tx == response.tx
         IN  IF tx.tx_status # "success"
             THEN Invalid("Transaction status: " \o templateText(tx.tx_status))
             ELSE IF tx.tx_type # "contract_call" THEN Invalid("Not a contract call")
             ELSE Verified(tx)

verifyPayment_SingleUse(txid, response) ==
    IF response.rejected THEN Caught(response)
    ELSE IF ~response.ok THEN Invalid("Transaction not found")
    ELSE IF response.body # "object" THEN Caught(response)
    ELSE LET tx == response.tx
             expectedContract == CONTRACT.address \o "." \o CONTRACT.name
         IN  IF tx.tx_status # "success"
             THEN Invalid("Transaction status: " \o templateText(tx.tx_status))
             ELSE IF tx.tx_type # "contract_call" THEN Invalid("Not a contract call")
             ELSE IF tx.contract_id # expectedContract THEN Invalid("Wrong contract")
             ELSE IF \E s \in DOMAIN reqs :
                        /\ reqs[s].verification.valid
                        /\ reqs[s].lookupTxid = normalizeTxid(txid)
             THEN Invalid("Transaction already used")
             ELSE Verified(tx)

verifyPayment_EnforceExpiry(txid, response) ==
    IF response.rejected THEN Caught(response)
    ELSE IF ~response.ok THEN Invalid("Transaction not found")
    ELSE IF response.body # "object" THEN Caught(response)
    ELSE LET tx == response.tx
             expectedContract == CONTRACT.address \o "." \o CONTRACT.name
         IN  IF tx.tx_status # "success"
             THEN Invalid("Transaction status: " \o templateText(tx.tx_status))
             ELSE IF tx.tx_type # "contract_call" THEN Invalid("Not a contract call")
             ELSE IF tx.contract_id # expectedContract THEN Invalid("Wrong contract")
             ELSE IF call.op = "clock" /\ \E e \in call.issued : call.now > e
             THEN Invalid("Challenge expired")
             ELSE Verified(tx)

verifyPayment_TargetFirst(txid, response) ==
    IF response.rejected THEN Caught(response)
    ELSE IF ~response.ok THEN Invalid("Transaction not found")
    ELSE IF response.body # "object" THEN Caught(response)
    ELSE LET tx == response.tx
             expectedContract == CONTRACT.address \o "." \o CONTRACT.name
         IN  IF tx.contract_id # expectedContract THEN Invalid("Wrong contract")
             ELSE IF tx.tx_status # "success"
             THEN Invalid("Transaction status: " \o templateText(tx.tx_status))
             ELSE IF tx.tx_type # "contract_call" THEN Invalid("Not a contract call")
             ELSE Verified(tx)

\* the outcome of `await verifyPayment(txid)` when the lookup of
\* normalizeTxid(txid) is answered by `response`; rejected = the promise rejects
verifyPayment(txid, response) ==
    IF response.rejected THEN Caught(response)
    ELSE IF ~response.ok THEN Invalid("Transaction not found")
    ELSE IF response.body # "object" THEN Caught(response)
    ELSE LET tx == response.tx
             expectedContract == CONTRACT.address \o "." \o CONTRACT.name
         IN  IF tx.tx_status # "success"
             THEN Invalid("Transaction status: " \o templateText(tx.tx_status))
             ELSE IF tx.tx_type # "contract_call" THEN Invalid("Not a contract call")
             ELSE IF tx.contract_id # expectedContract THEN Invalid("Wrong contract")
             ELSE Verified(tx)

----------------------------------------------------------------------------
(* Requests and responses *)

StandardEndpoints == {"/yield-opportunities", "/peg-health"}
PremiumEndpoints  == {"/alpha", "/simulate", "/agent-intel"}
PricedEndpoints   == StandardEndpoints \cup PremiumEndpoints
PostEndpoints     == {"/simulate", "/agent-intel"}
FreeEndpoints     == {"/", "/health", "/overview"}

\* the price arguments each handler passes to paymentRequired
\* (index.ts:978, 1029, 1079, 1192, 1283)
priceOf_FlatPrice(endpoint) == CONTRACT.standardPrice

priceOf_Surge(endpoint) ==
    (IF endpoint \in StandardEndpoints THEN CONTRACT.standardPrice
     ELSE CONTRACT.premiumPrice) + served

priceOf(endpoint) ==
    IF endpoint \in StandardEndpoints THEN CONTRACT.standardPrice ELSE CONTRACT.premiumPrice

sbtcPriceOf(endpoint) ==
    IF endpoint \in StandardEndpoints THEN CONTRACT.standardPriceSbtc
    ELSE CONTRACT.premiumPriceSbtc

\* JSON bodies of POST requests, as c.req.json() gives them: parsed = FALSE
\* when json() throws; protocol is a string or Undefined, riskTolerance a
\* property key or UndefinedStr
Body(protocol, riskTolerance) ==
    [ parsed |-> TRUE, protocol |-> protocol, riskTolerance |-> riskTolerance ]
NoBody      == [ parsed |-> FALSE, protocol |-> <<"<unread>">>, riskTolerance |-> "<unread>" ]
BodyInvalid == [ parsed |-> FALSE, protocol |-> Undefined, riskTolerance |-> UndefinedStr ]
BodyEmpty   == Body(Undefined, UndefinedStr)
BodyZest    == Body(<<"z","e","s","t">>, "moderate")
BodyUnknown == Body(<<"a","a","v","e">>, "moderate")
BodyPartial == Body(<<"z","e">>, "moderate")
BodyUpper   == Body(<<"Z","E","S","T">>, "MODERATE")
BodyBlank   == Body(<<>>, UndefinedStr)
BodyKelvin  == Body(<<"U+212A">>, UndefinedStr)

\* the bodies sent to POST /simulate and to POST /agent-intel
SimulateBodies == { BodyInvalid, BodyEmpty, BodyZest, BodyUnknown, BodyPartial,
                    BodyUpper, BodyBlank, BodyKelvin }
AgentBodies    == { BodyInvalid, BodyZest, BodyUpper }
BodiesOf(endpoint) == IF endpoint = "/simulate" THEN SimulateBodies ELSE AgentBodies

NoJson == [ none |-> TRUE ]
NoResp == [ status |-> 0, json |-> NoJson ]

\* Hono's default error handler: an exception that escapes a handler
InternalServerError == [ status |-> 500, json |-> [ text |-> "Internal Server Error" ] ]

\* One call of fetch() followed by json() on its response is a chain; a
\* chain is sent (fetch pending), then reading (json() pending), then
\* settled.  Chains of the same kind issued by the same invocation are not
\* told apart: the model counts them.
\*   oracle  : the fetchBtcPrice() calls the handler waits for, its own and
\*             the one of calculatePegHealth
\*   metrics : the fetchSbtcMetrics() calls the handler waits for, its own
\*             and the one of calculatePegHealth, each with its token
\*             chain, its market chain, which ends with a price or
\*             without one, and the chain of its fetchBtcPrice() call
NoChains == [ sent |-> 0, reading |-> 0 ]

IdleReq == [ pc             |-> "idle",
             endpoint       |-> "",
             xpayment       |-> Undefined,
             headerToken    |-> Undefined,
             queryToken     |-> Undefined,
             accept         |-> Undefined,
             lookupTxid     |-> <<>>,
             ledgerResponse |-> NoResponse,
             verification   |-> NoVerification,
             body           |-> NoBody,
             lookups        |-> 0,
             fetches        |-> 0,
             oracle         |-> NoChains,
             metrics        |-> EmptyBag,
             resp           |-> NoResp ]

----------------------------------------------------------------------------
(* The ledger's content and the answers a lookup can get *)

TX_PAID     == <<"0","x","a","1">>   \* successful call of the payment contract
TX_ABORTED  == <<"0","x","b","2">>   \* call of the payment contract that failed
TX_TRANSFER == <<"0","x","c","3">>   \* successful plain STX transfer
TX_SBTC     == <<"0","x","d","4">>   \* successful call of the sBTC token contract
TX_UNKNOWN  == <<"0","x","e","5">>   \* no such transaction

PAYER == "SP2J6ZY48GV1EZ5V2V5RB9MP66SW86PYKKNRV9EJ7"

LedgerTxids == {TX_PAID, TX_ABORTED, TX_TRANSFER, TX_SBTC}

LedgerTx(txid) ==
    CASE txid = TX_PAID     -> [ tx_status      |-> "success",
                                 tx_type        |-> "contract_call",
                                 contract_id    |-> "SPP5ZMH9NQDFD2K5CEQZ6P02AP8YPWMQ75TJW20M.simple-oracle",
                                 sender_address |-> PAYER ]
      [] txid = TX_ABORTED  -> [ tx_status      |-> "abort_by_response",
                                 tx_type        |-> "contract_call",
                                 contract_id    |-> "SPP5ZMH9NQDFD2K5CEQZ6P02AP8YPWMQ75TJW20M.simple-oracle",
                                 sender_address |-> PAYER ]
      [] txid = TX_TRANSFER -> [ tx_status      |-> "success",
                                 tx_type        |-> "token_transfer",
                                 contract_id    |-> UndefinedStr,
                                 sender_address |-> PAYER ]
      [] txid = TX_SBTC     -> [ tx_status      |-> "success",
                                 tx_type        |-> "contract_call",
                                 contract_id    |-> "SM3VDXK3WZZSA84XXFKAFAF15NNZX32CTSG82JFQ4.sbtc-token",
                                 sender_address |-> PAYER ]

\* the ledger's own answer for txid, and the answers a failing call can give
LedgerRecord(txid) == IF txid \in LedgerTxids THEN Found(LedgerTx(txid)) ELSE HttpNotOk

LedgerAnswers(txid) ==
    { LedgerRecord(txid), HttpNotOk, NetworkError, InvalidJson, EmptyJson, NullJson,
      EmptyObject }

\* what settles fetch() (index.ts:128): a rejection or a response that is
\* not ok end the verification, an ok response has its body read
LedgerHeads(txid) ==
    { IF a.ok THEN HeadersOk ELSE a : a \in LedgerAnswers(txid) }

\* what settles response.json() (index.ts:131) of an ok response
LedgerBodies(txid) == { a \in LedgerAnswers(txid) : a.ok }

\* values of the X-Payment header; the last is TX_UNKNOWN without its prefix
ProofTokens == {TX_PAID, TX_ABORTED, TX_TRANSFER, TX_SBTC, <<"e","5">>}
NoProof     == {Undefined, <<>>}

\* values of the X-Payment header of the requests to the free endpoints
FreeRequestProofs == {Undefined, TX_PAID}

\* values of the X-PAYMENT-TOKEN-TYPE header and of the tokenType query parameter
TokenHints == { Undefined, <<>>, <<"S","T","X">>, <<"s","B","T","C">>,
                <<"s","b","t","c">>, <<"S","b","T","c">>, <<"x","y","z">>,
                <<"s","b","t","c","x">>, <<"U+017F","b","t","c">>,
                <<"U+00DF","b","t","c">> }

\* the hints of the requests that go through the handlers
RequestHints == { Undefined, <<"S","T","X">>, <<"s","B","T","C">> }

\* values of the Accept header of the requests to GET /
TEXT_HTML == <<"t","e","x","t","/","h","t","m","l">>
AcceptValues == { Undefined, <<"*","/","*">>,
                  TEXT_HTML \o <<",","*","/","*">>,
                  <<"*","/","*",",">> \o TEXT_HTML }

NowValues  == {1000}
UuidValues == {"uuid-1"}

----------------------------------------------------------------------------
(* Upstream chains (index.ts:145-178, 236-239) *)

\* fetch() of a chain settles: it resolves, and json() is called on the
\* response (index.ts:148, 164, 165), or it rejects, which the chain's
\* catch turns into a value (index.ts:150, 164, 165)
chainResponds(c, rejected) ==
    IF rejected THEN [ c EXCEPT !.sent = @ - 1 ]
    ELSE [ c EXCEPT !.sent = @ - 1, !.reading = @ + 1 ]

\* json() of a chain settles, with a value or with a rejection that is caught
chainBody(c) == [ c EXCEPT !.reading = @ - 1 ]

Settled(c) == c.sent = 0 /\ c.reading = 0

\* fetchSbtcMetrics() was called: its two fetches are issued
\* (index.ts:163-166), fetchBtcPrice() is not called
MetricsCall == [ token |-> "sent", market |-> "sent", oracle |-> "none" ]

\* Promise.all of index.ts:163 has resolved
Joined(m) == m.token = "settled" /\ m.market \in {"priced", "unpriced"}

\* fetchSbtcMetrics() has returned: with the market's price, or with the
\* price of its fetchBtcPrice() call (index.ts:170)
Returned(m) == Joined(m) /\ (m.market = "priced" \/ m.oracle = "settled")

\* the upstream calls a handler issues once the request is past the gate:
\* the number of fetchBtcPrice() and of fetchSbtcMetrics() calls behind its
\* first await (index.ts:942, 986, 1037, 1094, 1206, 1291)
oracleCalls(endpoint) ==
    CASE endpoint = "/yield-opportunities" -> 0
      [] endpoint = "/simulate"            -> 1
      [] endpoint = "/agent-intel"         -> 2
      [] OTHER                             -> 1

metricsCalls(endpoint) ==
    CASE endpoint = "/yield-opportunities" -> 1
      [] endpoint = "/simulate"            -> 0
      [] endpoint = "/agent-intel"         -> 1
      [] OTHER                             -> 2

\* index.ts:181-225, the fields the handlers of the model read
fetchProtocolData ==
    << [ protocol    |-> <<"Z","e","s","t"," ","P","r","o","t","o","c","o","l">>,
         tvlEstimate |-> 15000000,  riskLevel |-> "low" ],
       [ protocol    |-> <<"A","L","E","X">>,
         tvlEstimate |-> 45000000,  riskLevel |-> "medium" ],
       [ protocol    |-> <<"V","e","l","a","r">>,
         tvlEstimate |-> 8000000,   riskLevel |-> "medium" ],
       [ protocol    |-> <<"S","t","a","c","k","i","n","g","D","A","O">>,
         tvlEstimate |-> 120000000, riskLevel |-> "low" ] >>

----------------------------------------------------------------------------
(* Handlers (index.ts:902-1319), one operator per segment between two       *)
(* returns to the event loop.                                               *)

\* up to the first await: read X-Payment, challenge or start the lookup
handlerStart_FetchBeforeGate(endpoint, paymentTxid, headerToken, queryToken, now, uuid) ==
    LET r == [ IdleReq EXCEPT !.endpoint = endpoint, !.xpayment = paymentTxid,
                              !.headerToken = headerToken, !.queryToken = queryToken,
                              !.fetches = 1 ]
    IN  IF ~Truthy(paymentTxid)
        THEN [ r EXCEPT !.pc = "done",
                        !.resp = paymentRequired(headerToken, queryToken, endpoint,
                                                 priceOf(endpoint), sbtcPriceOf(endpoint),
                                                 now, uuid) ]
        ELSE [ r EXCEPT !.pc = "verify",
                        !.lookupTxid = normalizeTxid(paymentTxid),
                        !.lookups = @ + 1 ]

handlerStart(endpoint, paymentTxid, headerToken, queryToken, now, uuid) ==
    LET r == [ IdleReq EXCEPT !.endpoint = endpoint, !.xpayment = paymentTxid,
                              !.headerToken = headerToken, !.queryToken = queryToken ]
    IN  IF ~Truthy(paymentTxid)
        THEN [ r EXCEPT !.pc = "done",
                        !.resp = paymentRequired(headerToken, queryToken, endpoint,
                                                 priceOf(endpoint), sbtcPriceOf(endpoint),
                                                 now, uuid) ]
        ELSE [ r EXCEPT !.pc = "verify",
                        !.lookupTxid = normalizeTxid(paymentTxid),
                        !.lookups = @ + 1 ]

Forbidden(verification) ==
    [ status |-> 403,
      json   |-> [ error   |-> "Payment verification failed",
                   details |-> verification.error ] ]

\* the handler issues its upstream calls and waits for them
startGather(r) ==
    [ r EXCEPT !.pc      = "gather",
               !.oracle  = [ sent |-> oracleCalls(r.endpoint), reading |-> 0 ],
               !.metrics = IF metricsCalls(r.endpoint) = 0 THEN EmptyBag
                           ELSE [ m \in {MetricsCall} |-> metricsCalls(r.endpoint) ],
               !.fetches = @ + oracleCalls(r.endpoint) + 2 * metricsCalls(r.endpoint) ]

\* fetch() of the lookup resolved with an ok response: verifyPayment waits
\* for response.json() (index.ts:131)
afterHeaders(r) == [ r EXCEPT !.pc = "verifyJson", !.ledgerResponse = HeadersOk ]

\* verifyPayment has returned: 403, or on to the body of a POST request
\* (index.ts:1087, 1200) or to the upstream calls
afterVerification_NoValidCheck(r, response) ==
    LET verification == verifyPayment(r.xpayment, response)
        v == [ r EXCEPT !.ledgerResponse = response, !.verification = verification ]
    IN  IF verification.rejected
        THEN [ v EXCEPT !.pc = "fault", !.resp = InternalServerError ]
        ELSE IF r.endpoint \in PostEndpoints
        THEN [ v EXCEPT !.pc = "readBody" ]
        ELSE startGather(v)

afterVerification_FixedDetails(r, response) ==
    LET verification == verifyPayment(r.xpayment, response)
        v == [ r EXCEPT !.ledgerResponse = response, !.verification = verification ]
    IN  IF verification.rejected
        THEN [ v EXCEPT !.pc = "fault", !.resp = InternalServerError ]
        ELSE IF ~verification.valid
        THEN [ v EXCEPT !.pc = "done", !.resp = Forbidden(Invalid("Invalid payment")) ]
        ELSE IF r.endpoint \in PostEndpoints
        THEN [ v EXCEPT !.pc = "readBody" ]
        ELSE startGather(v)

afterVerification_RetryOnFailure(r, response) ==
    LET verification == verifyPayment(r.xpayment, response)
        v == [ r EXCEPT !.ledgerResponse = response, !.verification = verification ]
    IN  IF verification.rejected
        THEN [ v EXCEPT !.pc = "fault", !.resp = InternalServerError ]
        ELSE IF ~verification.valid /\ r.lookups < 2
        THEN [ r EXCEPT !.pc = "verify", !.ledgerResponse = NoResponse,
                        !.lookups = @ + 1 ]
        ELSE IF ~verification.valid
        THEN [ v EXCEPT !.pc = "done", !.resp = Forbidden(verification) ]
        ELSE IF r.endpoint \in PostEndpoints
        THEN [ v EXCEPT !.pc = "readBody" ]
        ELSE startGather(v)

afterVerification(r, response) ==
    LET verification == verifyPayment(r.xpayment, response)
        v == [ r EXCEPT !.ledgerResponse = response, !.verification = verification ]
    IN  IF verification.rejected
        THEN [ v EXCEPT !.pc = "fault", !.resp = InternalServerError ]
        ELSE IF ~verification.valid
        THEN [ v EXCEPT !.pc = "done", !.resp = Forbidden(verification) ]
        ELSE IF r.endpoint \in PostEndpoints
        THEN [ v EXCEPT !.pc = "readBody" ]
        ELSE startGather(v)

\* c.req.json() has settled (index.ts:1087, 1200): a rejection escapes the
\* handler, a body lets it issue its upstream calls
afterBody(r, body) ==
    IF ~body.parsed
    THEN [ r EXCEPT !.pc = "fault", !.body = body, !.resp = InternalServerError ]
    ELSE startGather([ r EXCEPT !.body = body ])

\* protocols.find(p => p.protocol.toLowerCase().includes(body.protocol.toLowerCase()))
\* (index.ts:1096) finds a protocol
protocolFound(query) ==
    \E i \in 1..Len(fetchProtocolData) :
        includes(toLowerCase(fetchProtocolData[i].protocol), toLowerCase(query))

\* riskMap[body.riskTolerance] is defined (index.ts:1213)
riskKnown(riskTolerance) == riskTolerance \in {"conservative", "moderate", "aggressive"}

\* the JSON each handler returns once its data is gathered
payloadOf(r) ==
    CASE r.endpoint = "/yield-opportunities" ->
            [ paymentVerified |-> TRUE, caller |-> r.verification.caller,
              data |-> "opportunities" ]
      [] r.endpoint = "/peg-health" ->
            [ paymentVerified |-> TRUE, caller |-> r.verification.caller,
              data |-> "peg" ]
      [] r.endpoint = "/alpha" ->
            [ paymentVerified |-> TRUE, caller |-> r.verification.caller,
              data |-> "signals" ]
      [] r.endpoint = "/agent-intel" ->
            [ paymentVerified |-> TRUE, agentId |-> r.verification.caller,
              data |-> "strategy" ]
      [] r.endpoint = "/simulate" ->
            [ claritySimulation |-> [ verified |-> TRUE ],
              data |-> "simulation" ]
      [] r.endpoint = "/overview" ->
            [ data |-> "overview" ]

\* from the gathered data to the response
afterGather(r) ==
    IF r.endpoint = "/simulate" /\ r.body.protocol = Undefined
    THEN [ r EXCEPT !.pc = "fault", !.resp = InternalServerError ]
    ELSE IF r.endpoint = "/simulate" /\ ~protocolFound(r.body.protocol)
    THEN [ r EXCEPT !.pc = "done",
                    !.resp = [ status |-> 400,
                               json   |-> [ error |-> "Protocol not found" ] ] ]
    ELSE IF r.endpoint = "/agent-intel" /\ ~riskKnown(r.body.riskTolerance)
    THEN [ r EXCEPT !.pc = "fault", !.resp = InternalServerError ]
    ELSE [ r EXCEPT !.pc = "done",
                    !.resp = [ status |-> 200, json |-> payloadOf(r) ] ]

\* a chain has settled: the handler goes on when it waits for no other
\* (the Promise.all and awaits of index.ts:942, 986, 1037, 1094, 1206, 1291)
afterChain(r) ==
    IF Settled(r.oracle) /\ r.metrics = EmptyBag THEN afterGather(r) ELSE r

\* fetch() of one of the handler's fetchBtcPrice() calls settles
oracleResponds(r, rejected) ==
    afterChain([ r EXCEPT !.oracle = chainResponds(@, rejected) ])

\* json() of one of the handler's fetchBtcPrice() calls settles
oracleBody(r) == afterChain([ r EXCEPT !.oracle = chainBody(@) ])

\* a chain of the fetchSbtcMetrics() call m has settled, which makes the
\* call m2.  When Promise.all has resolved without a market price the call
\* issues the fetch of fetchBtcPrice() (index.ts:170); when the call has
\* returned the handler goes on if it waits for no other.
metricsStep(r, m, m2) ==
    LET others == r.metrics (-) SetToBag({m})
    IN  IF Returned(m2)
        THEN afterChain([ r EXCEPT !.metrics = others ])
        ELSE IF Joined(m2) /\ m2.oracle = "none"
        THEN [ r EXCEPT !.metrics = others (+) SetToBag({[ m2 EXCEPT !.oracle = "sent" ]}),
                        !.fetches = @ + 1 ]
        ELSE [ r EXCEPT !.metrics = others (+) SetToBag({m2}) ]

\* fetch() of a chain of the fetchSbtcMetrics() call m settles: it resolves
\* and json() is called on the response, or it rejects and the chain gives
\* null (index.ts:164, 165) or 97000 (index.ts:151)
metricsResponds(r, m, chain, rejected) ==
    metricsStep(r, m, [ m EXCEPT ![chain] = IF ~rejected THEN "reading"
                                            ELSE IF chain = "market" THEN "unpriced"
                                            ELSE "settled" ])

\* json() of a chain of the fetchSbtcMetrics() call m settles; priced: the
\* market's body has a truthy data.price_usd
metricsBody(r, m, chain, priced) ==
    metricsStep(r, m, [ m EXCEPT ![chain] = IF chain # "market" THEN "settled"
                                            ELSE IF priced THEN "priced"
                                            ELSE "unpriced" ])

\* the page of GET / for a browser (index.ts:903-906)
FrontendPage == [ status |-> 200, html |-> "getFrontendHtml()" ]

\* the free endpoints (index.ts:902-972): no gate; the handlers do not read
\* the X-Payment header the request may carry
freeHandler_Gated(endpoint, paymentTxid, accept) ==
    LET r == [ IdleReq EXCEPT !.endpoint = endpoint, !.xpayment = paymentTxid,
                              !.accept = accept ]
    IN  IF Truthy(paymentTxid)
        THEN [ r EXCEPT !.pc = "verify",
                        !.lookupTxid = normalizeTxid(paymentTxid),
                        !.lookups = @ + 1 ]
        ELSE IF endpoint = "/overview"
        THEN startGather(r)
        ELSE [ r EXCEPT !.pc = "done",
                        !.resp = [ status |-> 200,
                                   json   |-> [ data |-> IF endpoint = "/" THEN "info"
                                                         ELSE "health" ] ] ]

freeHandler(endpoint, paymentTxid, accept) ==
    LET r == [ IdleReq EXCEPT !.endpoint = endpoint, !.xpayment = paymentTxid,
                              !.accept = accept ]
    IN  IF endpoint = "/overview"
        THEN startGather(r)
        ELSE IF endpoint = "/" /\ includes(JsOr(accept, <<>>), TEXT_HTML)
        THEN [ r EXCEPT !.pc = "done", !.resp = FrontendPage ]
        ELSE [ r EXCEPT !.pc = "done",
                        !.resp = [ status |-> 200,
                                   json   |-> [ data |-> IF endpoint = "/" THEN "info"
                                                         ELSE "health" ] ] ]

----------------------------------------------------------------------------
(* The state machine *)

NoCall == [ op |-> "none" ]

\* the requests that wait for upstream data
Gathering(rs) == Cardinality({ s \in Slots : rs[s].pc = "gather" })

Init ==
    /\ reqs = [s \in Slots |-> IdleReq]
    /\ served = 0
    /\ call = NoCall

\* a request without a usable X-Payment header arrives at a priced endpoint
ArriveWithoutProof(s) ==
    /\ reqs[s].pc = "idle"
    /\ served < MaxRequests
    /\ \E endpoint \in PricedEndpoints, paymentTxid \in NoProof,
          headerToken \in RequestHints, queryToken \in RequestHints,
          now \in NowValues, uuid \in UuidValues :
          reqs' = [reqs EXCEPT ![s] = handlerStart(endpoint, paymentTxid, headerToken,
                                                   queryToken, now, uuid)]
    /\ served' = served + 1
    /\ UNCHANGED call

\* a request with an X-Payment header arrives at a priced endpoint; the
\* handler does not read the token-type hints of such a request
ArriveWithProof(s) ==
    /\ reqs[s].pc = "idle"
    /\ served < MaxRequests
    /\ \E endpoint \in PricedEndpoints, paymentTxid \in ProofTokens,
          now \in NowValues, uuid \in UuidValues :
          reqs' = [reqs EXCEPT ![s] = handlerStart(endpoint, paymentTxid, Undefined,
                                                   Undefined, now, uuid)]
    /\ served' = served + 1
    /\ UNCHANGED call

\* a request arrives at a free endpoint, with or without an X-Payment
\* header; only the handler of GET / reads the Accept header
ArriveFree(s) ==
    /\ reqs[s].pc = "idle"
    /\ served < MaxRequests
    /\ \E endpoint \in FreeEndpoints, paymentTxid \in FreeRequestProofs,
          accept \in AcceptValues :
          /\ endpoint # "/" => accept = Undefined
          /\ reqs' = [reqs EXCEPT ![s] = freeHandler(endpoint, paymentTxid, accept)]
          /\ Gathering(reqs') <= MaxGathering
    /\ served' = served + 1
    /\ UNCHANGED call

\* fetch() of the lookup of a request settles (index.ts:128)
LedgerResponds(s) ==
    /\ reqs[s].pc = "verify"
    /\ \E head \in LedgerHeads(reqs[s].lookupTxid) :
          /\ reqs' = [reqs EXCEPT ![s] = IF head = HeadersOk THEN afterHeaders(reqs[s])
                                         ELSE afterVerification(reqs[s], head)]
          /\ Gathering(reqs') <= MaxGathering
    /\ UNCHANGED <<served, call>>

\* response.json() of the lookup of a request settles (index.ts:131)
LedgerBody(s) ==
    /\ reqs[s].pc = "verifyJson"
    /\ \E response \in LedgerBodies(reqs[s].lookupTxid) :
          /\ reqs' = [reqs EXCEPT ![s] = afterVerification(reqs[s], response)]
          /\ Gathering(reqs') <= MaxGathering
    /\ UNCHANGED <<served, call>>

\* c.req.json() of a POST request settles (index.ts:1087, 1200)
BodyRead(s) ==
    /\ reqs[s].pc = "readBody"
    /\ \E body \in BodiesOf(reqs[s].endpoint) :
          /\ reqs' = [reqs EXCEPT ![s] = afterBody(reqs[s], body)]
          /\ Gathering(reqs') <= MaxGathering
    /\ UNCHANGED <<served, call>>

\* fetch() of a fetchBtcPrice() call of a request settles (index.ts:147)
OracleResponds(s) ==
    /\ reqs[s].pc = "gather"
    /\ reqs[s].oracle.sent > 0
    /\ \E rejected \in BOOLEAN :
          reqs' = [reqs EXCEPT ![s] = oracleResponds(reqs[s], rejected)]
    /\ UNCHANGED <<served, call>>

\* json() of a fetchBtcPrice() call of a request settles (index.ts:148)
OracleBody(s) ==
    /\ reqs[s].pc = "gather"
    /\ reqs[s].oracle.reading > 0
    /\ reqs' = [reqs EXCEPT ![s] = oracleBody(reqs[s])]
    /\ UNCHANGED <<served, call>>

\* fetch() of a chain of a fetchSbtcMetrics() call of a request settles
\* (index.ts:164, 165, and 147 for its fetchBtcPrice() call)
MetricsResponds(s) ==
    /\ reqs[s].pc = "gather"
    /\ \E m \in BagToSet(reqs[s].metrics), chain \in {"token", "market", "oracle"},
          rejected \in BOOLEAN :
          /\ m[chain] = "sent"
          /\ reqs' = [reqs EXCEPT ![s] = metricsResponds(reqs[s], m, chain, rejected)]
    /\ UNCHANGED <<served, call>>

\* json() of a chain of a fetchSbtcMetrics() call of a request settles
\* (index.ts:164, 165, and 148 for its fetchBtcPrice() call)
MetricsBody(s) ==
    /\ reqs[s].pc = "gather"
    /\ \E m \in BagToSet(reqs[s].metrics), chain \in {"token", "market", "oracle"},
          priced \in BOOLEAN :
          /\ m[chain] = "reading"
          /\ chain # "market" => ~priced
          /\ reqs' = [reqs EXCEPT ![s] = metricsBody(reqs[s], m, chain, priced)]
    /\ UNCHANGED <<served, call>>

\* the response is delivered and the slot is free again
Deliver(s) ==
    /\ reqs[s].pc \in {"done", "fault"}
    /\ reqs' = [reqs EXCEPT ![s] = IdleReq]
    /\ UNCHANGED <<served, call>>

\* a step of the handler of a request in flight
HandlerStep(s) ==
    \/ LedgerResponds(s)
    \/ LedgerBody(s)
    \/ BodyRead(s)
    \/ OracleResponds(s)
    \/ OracleBody(s)
    \/ MetricsResponds(s)
    \/ MetricsBody(s)

Next ==
    \E s \in Slots :
        \/ ArriveWithoutProof(s)
        \/ ArriveWithProof(s)
        \/ ArriveFree(s)
        \/ HandlerStep(s)
        \/ Deliver(s)

Spec == Init /\ [][Next]_vars

\* What the runtime guarantees: a response that a handler has returned is
\* delivered.  Nothing guarantees that an external service answers, so the
\* steps that wait for one carry no fairness.
Fairness == \A s \in Slots : WF_vars(Deliver(s))

SpecLive == Spec /\ Fairness

----------------------------------------------------------------------------
(* paymentRequired called directly: the arguments are drawn in the initial  *)
(* state and the one action applies the function to them.                   *)

\* prices other than the configured ones: not multiples of 1000
OtherPrices == {1, 2001}

\* sbtcPrice 0: the optional argument is omitted
ChallengeArgsOf(e) ==
    { [ op |-> "paymentRequired", headerToken |-> h, queryToken |-> q,
        resource |-> e, price |-> p, sbtcPrice |-> sp,
        now |-> t, uuid |-> u, result |-> NoResp ] :
      h \in TokenHints, q \in TokenHints, p \in {priceOf(e)} \cup OtherPrices,
      sp \in {0, sbtcPriceOf(e)}, t \in {0, 1000}, u \in {"uuid-1", "uuid-2"} }

ChallengeArgs == UNION { ChallengeArgsOf(e) : e \in PricedEndpoints }

InitChallenge ==
    /\ reqs = [s \in Slots |-> IdleReq]
    /\ served = 0
    /\ call \in ChallengeArgs

BuildChallenge ==
    /\ call.op = "paymentRequired"
    /\ call.result = NoResp
    /\ call' = [call EXCEPT !.result = paymentRequired(call.headerToken, call.queryToken,
                                                       call.resource, call.price,
                                                       call.sbtcPrice, call.now, call.uuid)]
    /\ UNCHANGED <<reqs, served>>

NextChallenge == BuildChallenge

SpecChallenge == InitChallenge /\ [][NextChallenge]_vars

----------------------------------------------------------------------------
(* Requests over time: a clock, the challenges issued so far and the time   *)
(* each request in flight arrived.  Clients ask for challenges and present  *)
(* proofs at any time, before or after a challenge's expiresAt.             *)

\* how often the clock advances in one behaviour
MaxTicks == 1

\* total number of requests that arrive in one behaviour of the session
MaxSessionRequests == 3

\* one advance of the clock: just past the expiry window of index.ts:68
TickMs == 10 * 60 * 1000 + 1

SessionEndpoints == {"/yield-opportunities", "/simulate"}
SessionProofs    == {TX_PAID, TX_ABORTED, TX_UNKNOWN}
SessionHints     == {Undefined, <<"s","B","T","C">>}

InitSession ==
    /\ reqs = [s \in Slots |-> IdleReq]
    /\ served = 0
    /\ call = [ op |-> "clock", now |-> 0, issued |-> {},
                at |-> [s \in Slots |-> 0] ]

Tick ==
    /\ call.op = "clock"
    /\ call.now < MaxTicks * TickMs
    /\ call' = [call EXCEPT !.now = @ + TickMs]
    /\ UNCHANGED <<reqs, served>>

\* a client asks a priced endpoint for its challenge
SessionChallenge(s) ==
    /\ call.op = "clock"
    /\ reqs[s].pc = "idle"
    /\ served < MaxSessionRequests
    /\ \E endpoint \in SessionEndpoints, queryToken \in SessionHints,
          uuid \in UuidValues :
          LET r == handlerStart(endpoint, Undefined, Undefined, queryToken,
                                call.now, uuid)
          IN  /\ reqs' = [reqs EXCEPT ![s] = r]
              /\ call' = [call EXCEPT !.issued = @ \cup {r.resp.json.expiresAt},
                                      !.at[s] = call.now]
    /\ served' = served + 1

\* a client presents a proof token to a priced endpoint
SessionPay(s) ==
    /\ call.op = "clock"
    /\ reqs[s].pc = "idle"
    /\ served < MaxSessionRequests
    /\ \E endpoint \in SessionEndpoints, paymentTxid \in SessionProofs,
          queryToken \in SessionHints, uuid \in UuidValues :
          reqs' = [reqs EXCEPT ![s] = handlerStart(endpoint, paymentTxid, Undefined,
                                                   queryToken, call.now, uuid)]
    /\ call' = [call EXCEPT !.at[s] = call.now]
    /\ served' = served + 1

SessionDeliver(s) ==
    /\ call.op = "clock"
    /\ reqs[s].pc \in {"done", "fault"}
    /\ reqs' = [reqs EXCEPT ![s] = IdleReq]
    /\ call' = [call EXCEPT !.at[s] = 0]
    /\ UNCHANGED served

NextSession ==
    \/ Tick
    \/ \E s \in Slots :
        \/ SessionChallenge(s)
        \/ SessionPay(s)
        \/ HandlerStep(s)
        \/ SessionDeliver(s)

SpecSession == InitSession /\ [][NextSession]_vars

----------------------------------------------------------------------------
(* Upstream data (index.ts:145-258) and the handler of GET /overview        *)
(* (index.ts:941-972).  What `fetch(url)` followed by `.json()` gives:      *)
(*   kind : "rejected" (fetch throws), "invalid" (json() throws),           *)
(*          "null" (the body is null), "object"                             *)
(* An optional number the code only tests for truthiness is 0 when absent;  *)
(* an optional numeric string is Undefined when absent.  Prices are whole   *)
(* numbers of dollars and numeric strings are strings of decimal digits.    *)

\* parseInt / parseFloat of a string of decimal digits
RECURSIVE parseDigits(_)
parseDigits(str) ==
    IF Len(str) = 0 THEN 0
    ELSE 10 * parseDigits(SubSeq(str, 1, Len(str) - 1))
         + (CHOOSE d \in 0..9 : Digits[d + 1] = str[Len(str)])

\* answers of the price oracle (api.coingecko.com): usd is data?.bitcoin?.usd
OracleRejected == [ kind |-> "rejected", usd |-> 0 ]
OracleInvalid  == [ kind |-> "invalid",  usd |-> 0 ]
OracleNull     == [ kind |-> "null",     usd |-> 0 ]
OraclePrice(usd) == [ kind |-> "object", usd |-> usd ]

\* answers of the token-metrics API (HIRO_API /extended/v1/tokens/ft)
TokenMetrics(total_supply, holders_count) ==
    [ kind |-> "object", total_supply |-> total_supply, holders_count |-> holders_count ]
TokenRejected == [ kind |-> "rejected", total_supply |-> Undefined, holders_count |-> 0 ]
TokenInvalid  == [ kind |-> "invalid",  total_supply |-> Undefined, holders_count |-> 0 ]
TokenNull     == [ kind |-> "null",     total_supply |-> Undefined, holders_count |-> 0 ]

\* answers of the market-data API (TENERO_API /v1/stacks/tokens): the
\* fields are teneroRes?.data?.price_usd and teneroRes?.data?.volume_24h_usd
MarketData(price_usd, volume_24h_usd) ==
    [ kind |-> "object", price_usd |-> price_usd, volume_24h_usd |-> volume_24h_usd ]
MarketRejected == [ kind |-> "rejected", price_usd |-> Undefined, volume_24h_usd |-> Undefined ]
MarketInvalid  == [ kind |-> "invalid",  price_usd |-> Undefined, volume_24h_usd |-> Undefined ]
MarketNull     == [ kind |-> "null",     price_usd |-> Undefined, volume_24h_usd |-> Undefined ]

\* index.ts:145-153
fetchBtcPrice_OtherFallback(oracle) ==
    IF oracle.kind \in {"rejected", "invalid"} THEN 100000
    ELSE IF oracle.usd # 0 THEN oracle.usd ELSE 100000

fetchBtcPrice(oracle) ==
    IF oracle.kind \in {"rejected", "invalid"} THEN 97000
    ELSE IF oracle.usd # 0 THEN oracle.usd ELSE 97000

\* index.ts:156-178; `.then(r => r.json()).catch(() => null)` turns a
\* rejected fetch and an unparsable body into null.  oracle is the answer to
\* the call of fetchBtcPrice() at index.ts:170, made when the market gave no
\* price.  totalSupply is in hundred-millionths: parseInt(total_supply) / 1e8
\* is the double that prints as that many hundred-millionths.
fetchSbtcMetrics(token, market, oracle) ==
    LET supplyRes == IF token.kind = "object" THEN token ELSE TokenNull
        teneroRes == IF market.kind = "object" THEN market ELSE MarketNull
    IN  [ totalSupply |-> IF Truthy(supplyRes.total_supply)
                          THEN parseDigits(supplyRes.total_supply)
                          ELSE 0,
          holders     |-> supplyRes.holders_count,
          price       |-> IF Truthy(teneroRes.price_usd)
                          THEN parseDigits(teneroRes.price_usd)
                          ELSE fetchBtcPrice(oracle),
          volume24h   |-> IF Truthy(teneroRes.volume_24h_usd)
                          THEN parseDigits(teneroRes.volume_24h_usd)
                          ELSE 0 ]

\* the integer part of a * 10^k / b, by long division
RECURSIVE scaledDiv(_, _, _)
scaledDiv(a, b, k) ==
    IF k = 0 THEN a \div b
    ELSE (a \div b) * 10^k + scaledDiv((a % b) * 10, b, k - 1)

\* what the long division of a * 10^k by b leaves
RECURSIVE scaledRem(_, _, _)
scaledRem(a, b, k) ==
    IF k = 0 THEN a % b ELSE scaledRem((a % b) * 10, b, k - 1)

\* the number of binary digits of n
RECURSIVE bitLength(_)
bitLength(n) == IF n = 0 THEN 0 ELSE 1 + bitLength(n \div 2)

\* The division of two doubles gives the double nearest the quotient, ties
\* to the even mantissa.  The quotient is developed in binary until it has
\* the 53 significant digits of a double (bits of them so far, the last being
\* last, rem left to divide by b); what is left says whether the double is
\* the quotient ("exact"), below it ("down") or above it ("up").
RECURSIVE quotientRounding(_, _, _, _)
quotientRounding(rem, b, bits, last) ==
    IF bits = 53
    THEN IF rem = 0 THEN "exact"
         ELSE IF 2 * rem < b THEN "down"
         ELSE IF 2 * rem > b THEN "up"
         ELSE IF last = 0 THEN "down" ELSE "up"
    ELSE LET bit == IF 2 * rem >= b THEN 1 ELSE 0
         IN  quotientRounding(2 * rem - bit * b, b,
                              IF bits = 0 /\ bit = 0 THEN 0 ELSE bits + 1, bit)

\* how the double a / b lies to the quotient of the integers a >= 0, b > 0
divisionRounding(a, b) ==
    IF a = 0 THEN "exact"
    ELSE quotientRounding(a % b, b, bitLength(a \div b), (a \div b) % 2)

\* parseFloat((a / b).toFixed(6)), in millionths.  toFixed takes the n for
\* which n / 10^6 is nearest the double a / b, the larger n of two; the
\* double is nearer the quotient than any quotient that is not half way
\* between two n is to the half way point, so only there does its rounding
\* decide.
toFixed6(a, b) ==
    LET n    == scaledDiv(a, b, 6)
        left == scaledRem(a, b, 6)
    IN  IF 2 * left < b THEN n
        ELSE IF 2 * left > b THEN n + 1
        ELSE IF divisionRounding(a, b) = "down" THEN n ELSE n + 1

\* index.ts:228-258 for the answer oracle to the call of fetchBtcPrice() at
\* index.ts:237 and the answers token, market and fallback to the calls of
\* its fetchSbtcMetrics().  spread = (sbtcPrice - btcPrice) / btcPrice * 100
\* is compared with 0.5 and 2 by cross-multiplication; pegRatio is kept in
\* millionths, which is what toFixed(6) rounds it to.  spread and
\* confidence, which no modelled response shows, are left out.
calculatePegHealth(oracle, token, market, fallback) ==
    LET btcPrice   == fetchBtcPrice(oracle)
        sbtcPrice  == fetchSbtcMetrics(token, market, fallback).price
        diff       == sbtcPrice - btcPrice
        absDiff    == IF diff < 0 THEN -diff ELSE diff
        first      == IF diff * 200 > btcPrice THEN "slight-premium"
                      ELSE IF diff * 200 < -btcPrice THEN "slight-discount"
                      ELSE "healthy"
    IN  [ pegRatio  |-> toFixed6(sbtcPrice, btcPrice),
          pegStatus |-> IF absDiff * 50 > btcPrice THEN "warning" ELSE first,
          btcPrice  |-> btcPrice,
          sbtcPrice |-> sbtcPrice ]

RECURSIVE sumTvl(_)
sumTvl(protocols) ==
    IF protocols = <<>> THEN 0
    ELSE protocols[1].tvlEstimate + sumTvl(Tail(protocols))

\* the response of GET /overview (index.ts:941-972; timestamp, bestApy and
\* message left out).  answers holds what the handler's seven fetches give:
\* token, market, fallback for its own fetchSbtcMetrics(); oracle, pegToken,
\* pegMarket, pegFallback for calculatePegHealth().
overviewHandler(answers) ==
    LET sbtcMetrics == fetchSbtcMetrics(answers.token, answers.market, answers.fallback)
        protocols   == fetchProtocolData
        pegHealth   == calculatePegHealth(answers.oracle, answers.pegToken, answers.pegMarket,
                                          answers.pegFallback)
    IN  [ status |-> 200,
          json   |-> [ sbtc |-> [ totalSupply |-> sbtcMetrics.totalSupply,
                                  holders     |-> sbtcMetrics.holders,
                                  priceUsd    |-> sbtcMetrics.price,
                                  volume24h   |-> sbtcMetrics.volume24h,
                                  pegHealth   |-> [ pegStatus |-> pegHealth.pegStatus,
                                                    ratio     |-> pegHealth.pegRatio ] ],
                       ecosystem |-> [ totalTvl      |-> sumTvl(protocols),
                                       protocolCount |-> Len(protocols),
                                       protocols     |-> [i \in 1..Len(protocols) |->
                                                             protocols[i].protocol] ],
                       network |-> "stacks-mainnet" ] ]

\* The seven fetches of the handler: token, market and fallback are those of
\* its own fetchSbtcMetrics() (index.ts:164, 165, and 147 called from 170);
\* oracle is that of calculatePegHealth's fetchBtcPrice() (index.ts:237);
\* pegToken, pegMarket and pegFallback are those of calculatePegHealth's
\* fetchSbtcMetrics() (index.ts:238).
OverviewChains == {"token", "market", "fallback", "oracle",
                   "pegToken", "pegMarket", "pegFallback"}

\* what a fetch that has not settled has given
NoAnswer == [ kind |-> "none" ]

\* The answers drawn for each fetch.  calculatePegHealth reads only the
\* price of its fetchSbtcMetrics(): two answers are drawn for that call's
\* token-metrics fetch, and the market prices drawn for it lie at, near and
\* far from the oracle's.
AnswersOf(chain) ==
    CASE chain = "token" ->
            { TokenRejected, TokenInvalid, TokenNull, TokenMetrics(Undefined, 0),
              TokenMetrics(<<"1","2","3","4","5","6","7","8","9">>, 12) }
      [] chain = "pegToken" ->
            { TokenRejected, TokenMetrics(<<"1","2","3">>, 12) }
      [] chain = "market" ->
            { MarketRejected, MarketInvalid, MarketNull,
              MarketData(Undefined, Undefined),
              MarketData(<<"9","5","1","0","0">>, <<"1","2","0","0","0","0","0">>),
              MarketData(Undefined, <<"8","0","0">>) }
      [] chain = "pegMarket" ->
            { MarketRejected, MarketNull,
              MarketData(<<"9","9","0","0","0">>, Undefined),
              MarketData(<<"6","2","0","9","2">>, Undefined),
              MarketData(<<"6","4","0","0","4">>, Undefined),
              MarketData(<<"6","4","5","0","0">>, Undefined) }
      [] chain = "oracle" ->
            { OracleRejected, OracleInvalid, OracleNull,
              OraclePrice(0), OraclePrice(95000), OraclePrice(64000) }
      [] OTHER ->
            { OracleRejected, OraclePrice(95000), OraclePrice(64000) }

\* The handler resumes after one of its fetches has settled.  A
\* fetchSbtcMetrics() call whose Promise.all (index.ts:163) has resolved
\* without a market price calls fetchBtcPrice(), which issues its fetch
\* (index.ts:170, 147); when the handler waits for no fetch, the Promise.all
\* of index.ts:942 resolves and it returns its response.
overviewResumes(c) ==
    LET unpriced(token, market, fallback) ==
            /\ c[token].phase = "settled"
            /\ c[market].phase = "settled"
            /\ ~Truthy(c[market].answer.price_usd)
            /\ c[fallback].phase = "none"
        issued == [ phase |-> "sent", answer |-> NoAnswer ]
        own    == unpriced("token", "market", "fallback")
        peg    == unpriced("pegToken", "pegMarket", "pegFallback")
        c2     == [ c EXCEPT !.fallback    = IF own THEN issued ELSE @,
                             !.pegFallback = IF peg THEN issued ELSE @,
                             !.fetches     = @ + (IF own THEN 1 ELSE 0)
                                               + (IF peg THEN 1 ELSE 0) ]
    IN  IF \A chain \in OverviewChains : c2[chain].phase \in {"none", "settled"}
        THEN [ c2 EXCEPT !.result =
                  overviewHandler([ chain \in OverviewChains |-> c2[chain].answer ]) ]
        ELSE c2

\* no request for GET /overview yet
InitData ==
    /\ reqs = [s \in Slots |-> IdleReq]
    /\ served = 0
    /\ call = [ op |-> "overview", fetches |-> 0, result |-> NoResp ]
              @@ [ chain \in OverviewChains |-> [ phase |-> "none", answer |-> NoAnswer ] ]

\* GET /overview arrives: up to the await of index.ts:942 the handler
\* calls fetchSbtcMetrics(), fetchProtocolData() and calculatePegHealth(),
\* which issue five fetches (index.ts:164, 165, 147, 164, 165)
OverviewCalled ==
    /\ call.op = "overview"
    /\ call.fetches = 0
    /\ LET issued == [ phase |-> "sent", answer |-> NoAnswer ]
       IN  call' = [call EXCEPT !.token = issued, !.market = issued, !.oracle = issued,
                                !.pegToken = issued, !.pegMarket = issued,
                                !.fetches = 5]
    /\ UNCHANGED <<reqs, served>>

\* fetch() of one of the handler's chains settles (index.ts:147, 164, 165):
\* it resolves and json() is called on the response, or it rejects and the
\* chain's catch gives its value
OverviewResponds ==
    /\ call.op = "overview"
    /\ \E chain \in OverviewChains, rejected \in BOOLEAN :
          /\ call[chain].phase = "sent"
          /\ call' = overviewResumes(
                        [call EXCEPT ![chain] =
                            IF rejected
                            THEN [ phase  |-> "settled",
                                   answer |-> CHOOSE a \in AnswersOf(chain) :
                                                 a.kind = "rejected" ]
                            ELSE [ phase |-> "reading", answer |-> NoAnswer ]])
    /\ UNCHANGED <<reqs, served>>

\* json() of one of the handler's chains settles (index.ts:148, 164, 165),
\* with a value or with a rejection that the chain's catch turns into one
OverviewBody ==
    /\ call.op = "overview"
    /\ \E chain \in OverviewChains :
          /\ call[chain].phase = "reading"
          /\ \E answer \in AnswersOf(chain) :
                /\ answer.kind # "rejected"
                /\ call' = overviewResumes(
                              [call EXCEPT ![chain] = [ phase  |-> "settled",
                                                        answer |-> answer ]])
    /\ UNCHANGED <<reqs, served>>

\* What the server does between two steps of the call under study: a GET
\* /health (index.ts:932-938) or a GET /alpha without proof or hints
\* (index.ts:1280-1288) arrives and is answered before its handler returns
\* to the event loop, or a response is delivered
Meanwhile(s) ==
    \/ /\ reqs[s].pc = "idle"
       /\ served < MaxRequests
       /\ reqs' = [reqs EXCEPT ![s] = freeHandler("/health", Undefined, Undefined)]
       /\ served' = served + 1
       /\ UNCHANGED call
    \/ /\ reqs[s].pc = "idle"
       /\ served < MaxRequests
       /\ \E now \in NowValues, uuid \in UuidValues :
             reqs' = [reqs EXCEPT ![s] = handlerStart("/alpha", Undefined, Undefined,
                                                      Undefined, now, uuid)]
       /\ served' = served + 1
       /\ UNCHANGED call
    \/ Deliver(s)

NextData ==
    \/ OverviewCalled
    \/ OverviewResponds
    \/ OverviewBody
    \/ \E s \in Slots : Meanwhile(s)

SpecData == InitData /\ [][NextData]_vars

----------------------------------------------------------------------------
(* verifyPayment called directly (index.ts:125-142).  A call is not made    *)
(* yet ("idle"), at `await fetch` (index.ts:128, "fetch"), at `await        *)
(* response.json()` (index.ts:131, "json") or "returned".  Operation        *)
(* "normalize": a token and the same token with "0x" put before it are      *)
(* verified against a ledger that holds one transaction.                    *)

\* longest proof token drawn
MaxTxidLen == 3

\* the sequences over chars of length 1..n
RECURSIVE SeqsUpTo(_, _)
SeqsUpTo(chars, n) ==
    IF n = 0 THEN {}
    ELSE LET shorter == SeqsUpTo(chars, n - 1)
         IN  { <<c>> : c \in chars } \cup shorter
             \cup { Append(t, c) : t \in shorter, c \in chars }

\* what GET /extended/v1/tx/{txid} answers when the ledger holds tx under held
AnswerFor(txid, held, tx) == IF txid = held THEN Found(tx) ELSE HttpNotOk

\* verifyPayment(txid) about to be called
VerifyCall(txid) ==
    [ txid |-> txid, phase |-> "idle", lookup |-> <<>>, result |-> NoVerification ]

\* the ledger holds one transaction, a payment or a failed call, under the
\* token, under "0x" + token or under "0x0x" + token
NormalizeArgsOf(t) ==
    { [ op |-> "normalize", txid |-> t, held |-> h, tx |-> tx,
        calls |-> [ given    |-> VerifyCall(t),
                    prefixed |-> VerifyCall(<<"0","x">> \o t) ] ] :
      h \in { t, <<"0","x">> \o t, <<"0","x","0","x">> \o t },
      tx \in { LedgerTx(TX_PAID), LedgerTx(TX_ABORTED) } }

\* Operation "verify": one call of verifyPayment whose lookup is answered
\* with any combination of status, type and call target, under an HTTP
\* status that is ok or not.
AnyTx == { [ tx_status |-> st, tx_type |-> ty, contract_id |-> c,
             sender_address |-> PAYER ] :
           st \in {"success", "pending", "abort_by_response", UndefinedStr},
           ty \in {"contract_call", "token_transfer", UndefinedStr},
           c  \in {"SPP5ZMH9NQDFD2K5CEQZ6P02AP8YPWMQ75TJW20M.simple-oracle",
                   "SM3VDXK3WZZSA84XXFKAFAF15NNZX32CTSG82JFQ4.sbtc-token", UndefinedStr} }

VerifyArgs ==
    { [ op |-> "verify",
        response |-> [ rejected |-> FALSE, ok |-> ok, body |-> "object", tx |-> tx ],
        calls |-> [ given |-> VerifyCall(TX_PAID) ] ] :
      ok \in BOOLEAN, tx \in AnyTx }

InitVerify ==
    /\ reqs = [s \in Slots |-> IdleReq]
    /\ served = 0
    /\ call \in UNION { NormalizeArgsOf(t) : t \in SeqsUpTo({"0", "x", "X", "a"}, MaxTxidLen) }
                \cup VerifyArgs

\* what the ledger answers to the lookup of txid
ledgerAnswer(txid) ==
    IF call.op = "normalize" THEN AnswerFor(txid, call.held, call.tx) ELSE call.response

\* verifyPayment is called: it normalizes the token and issues the fetch of
\* the lookup (index.ts:127-128)
VerifyCalled ==
    /\ call.op \in {"normalize", "verify"}
    /\ \E form \in DOMAIN call.calls :
          /\ call.calls[form].phase = "idle"
          /\ call' = [call EXCEPT
                         !.calls[form].phase  = "fetch",
                         !.calls[form].lookup = normalizeTxid(call.calls[form].txid)]
    /\ UNCHANGED <<reqs, served>>

\* fetch() of the lookup of a call settles (index.ts:128): a rejection and a
\* response that is not ok end the call (index.ts:139-141, 129); on an ok
\* response it waits for response.json() (index.ts:131)
VerifyResponds ==
    /\ call.op \in {"normalize", "verify"}
    /\ \E form \in DOMAIN call.calls :
          LET v      == call.calls[form]
              answer == ledgerAnswer(v.lookup)
          IN  /\ v.phase = "fetch"
              /\ call' = IF answer.rejected \/ ~answer.ok
                         THEN [call EXCEPT
                                  !.calls[form].phase  = "returned",
                                  !.calls[form].result = verifyPayment(v.txid, answer)]
                         ELSE [call EXCEPT !.calls[form].phase = "json"]
    /\ UNCHANGED <<reqs, served>>

\* response.json() of the lookup of a call settles (index.ts:131): the call
\* makes its checks and returns (index.ts:132-141)
VerifyBody ==
    /\ call.op \in {"normalize", "verify"}
    /\ \E form \in DOMAIN call.calls :
          LET v == call.calls[form]
          IN  /\ v.phase = "json"
              /\ call' = [call EXCEPT
                             !.calls[form].phase  = "returned",
                             !.calls[form].result =
                                 verifyPayment(v.txid, ledgerAnswer(v.lookup))]
    /\ UNCHANGED <<reqs, served>>

NextVerify ==
    \/ VerifyCalled
    \/ VerifyResponds
    \/ VerifyBody
    \/ \E s \in Slots : Meanwhile(s)

SpecVerify == InitVerify /\ [][NextVerify]_vars

----------------------------------------------------------------------------
(* Vocabulary of the properties *)

\* the handler of the request has received the verdict of verifyPayment
VerificationDone(r) == r.verification # NoVerification

\* the request has its response
Answered(r) == r.pc \in {"done", "fault"}

\* the request got past the gate: its body is asked for or was read, or its
\* data is fetched
PastGate(r) ==
    \/ r.pc = "readBody" \/ r.body # NoBody
    \/ r.fetches > 0 \/ r.resp.status \in {200, 400}

\* the body of a request that the handler of its endpoint can serve: one
\* that names a listed protocol (/simulate), a known risk tolerance
\* (/agent-intel)
BodyServable(r) ==
    \/ r.endpoint \notin PostEndpoints
    \/ /\ r.endpoint = "/simulate"
       /\ r.body \in {BodyZest, BodyPartial, BodyUpper, BodyBlank, BodyKelvin}
    \/ /\ r.endpoint = "/agent-intel"
       /\ r.body = BodyZest

\* the ledger's answer is a successful contract call of the configured contract
IsPaymentCall(response) ==
    /\ ~response.rejected /\ response.ok /\ response.body = "object"
    /\ response.tx.tx_status = "success"
    /\ response.tx.tx_type = "contract_call"
    /\ response.tx.contract_id = "SPP5ZMH9NQDFD2K5CEQZ6P02AP8YPWMQ75TJW20M.simple-oracle"

IsRecord(response) == ~response.rejected /\ response.ok /\ response.body = "object"

NonEmpty(str) == str \notin {"", UndefinedStr, "<pending>"}

----------------------------------------------------------------------------
\* C1: on a priced endpoint a request gets past the gate (its body is read,
\* its data is fetched, the payload is returned) only after verifyPayment
\* returned valid for the X-Payment token of that same request; a request
\* without a token or with a failed verification never gets there.
C1_PayloadOnlyAfterValidProof ==
    \A s \in Slots :
        LET r == reqs[s]
        IN  (r.endpoint \in PricedEndpoints /\ PastGate(r)) =>
                /\ Truthy(r.xpayment)
                /\ r.lookupTxid = normalizeTxid(r.xpayment)
                /\ r.ledgerResponse \in LedgerAnswers(r.lookupTxid)
                /\ r.verification = verifyPayment(r.xpayment, r.ledgerResponse)
                /\ r.verification.valid

C1_Witness ==
    \E s \in Slots :
        /\ reqs[s].endpoint = "/alpha"
        /\ reqs[s].resp.status = 200
        /\ reqs[s].verification.valid

\* C2: a request to a priced endpoint without a proof token is answered 402
\* with the challenge, and no ledger lookup and no upstream fetch was issued
\* for it.
C2_NoProofChallengedWithoutWork ==
    \A s \in Slots :
        LET r == reqs[s]
        IN  /\ (r.endpoint \in PricedEndpoints /\ ~Truthy(r.xpayment)) =>
                  /\ r.pc = "done"
                  /\ r.resp.status = 402
                  /\ r.resp.json.code = "PAYMENT_REQUIRED"
                  /\ r.resp.json.resource = r.endpoint
                  /\ r.lookups = 0
                  /\ r.fetches = 0
                  /\ ~VerificationDone(r)
            /\ r.resp.status = 402 => ~Truthy(r.xpayment)

C2_Witness ==
    \E s \in Slots :
        /\ reqs[s].endpoint = "/peg-health"
        /\ reqs[s].xpayment = Undefined
        /\ reqs[s].resp.status = 402

\* C3: a request whose proof token fails verification is answered 403 with
\* the body {error, details}, details being the reason verifyPayment gave,
\* and no body was read and no upstream fetch issued for it.
C3_FailedProofRejectedWithReason ==
    \A s \in Slots :
        LET r == reqs[s]
        IN  /\ (VerificationDone(r) /\ ~r.verification.valid) =>
                  /\ r.pc = "done"
                  /\ r.resp.status = 403
                  /\ DOMAIN r.resp.json = {"error", "details"}
                  /\ r.resp.json.details = verifyPayment(r.xpayment, r.ledgerResponse).error
                  /\ NonEmpty(r.resp.json.details)
                  /\ r.fetches = 0
                  /\ r.body = NoBody
            /\ r.resp.status = 403 => (VerificationDone(r) /\ ~r.verification.valid)

C3_Witness ==
    \E s \in Slots :
        /\ reqs[s].endpoint = "/simulate"
        /\ reqs[s].resp.status = 403
        /\ reqs[s].resp.json.details = "Transaction status: abort_by_response"

\* C4 (as claimed): on every priced endpoint a request whose proof token
\* verified as valid, and whose body the handler can serve, is answered 200
\* with a payload that has paymentVerified: true and the payer identity.
C4_ValidProofPayloadSaysVerified ==
    \A s \in Slots :
        LET r == reqs[s]
        IN  ( /\ r.endpoint \in PricedEndpoints
              /\ r.verification.valid
              /\ BodyServable(r)
              /\ Answered(r) ) =>
                /\ r.resp.status = 200
                /\ "paymentVerified" \in DOMAIN r.resp.json
                /\ r.resp.json.paymentVerified = TRUE
                /\ \/ /\ "caller" \in DOMAIN r.resp.json
                      /\ r.resp.json.caller = r.verification.caller
                   \/ /\ "agentId" \in DOMAIN r.resp.json
                      /\ r.resp.json.agentId = r.verification.caller

\* the four failure cases of a lookup, each presuming the checks before it
CaseOf(response) ==
    IF ~response.rejected /\ ~response.ok THEN "not-found"
    ELSE IF ~IsRecord(response) THEN "fault"
    ELSE IF response.tx.tx_status # "success" THEN "wrong-status"
    ELSE IF response.tx.tx_type # "contract_call" THEN "wrong-kind"
    ELSE IF ~IsPaymentCall(response) THEN "wrong-target"
    ELSE "paid"

FailureCases == {"not-found", "wrong-status", "wrong-kind", "wrong-target"}

\* C5: verifyPayment returns valid:false with a non-empty reason when the
\* ledger reports no such transaction, when the status is not "success",
\* when the type is not a contract call and when the call target is not the
\* configured contract; two requests in different cases of the four get
\* different reasons.
C5_FourFailuresDistinctReasons ==
    /\ \A s \in Slots :
          LET r == reqs[s]
              a == r.ledgerResponse
          IN  ( /\ VerificationDone(r)
                /\ \/ ~a.rejected /\ ~a.ok
                   \/ IsRecord(a) /\ a.tx.tx_status # "success"
                   \/ IsRecord(a) /\ a.tx.tx_type # "contract_call"
                   \/ IsRecord(a) /\ a.tx.contract_id #
                         "SPP5ZMH9NQDFD2K5CEQZ6P02AP8YPWMQ75TJW20M.simple-oracle" ) =>
                  /\ r.verification.valid = FALSE
                  /\ NonEmpty(r.verification.error)
    /\ \A s, t \in Slots :
          ( /\ VerificationDone(reqs[s]) /\ VerificationDone(reqs[t])
            /\ CaseOf(reqs[s].ledgerResponse) \in FailureCases
            /\ CaseOf(reqs[t].ledgerResponse) \in FailureCases
            /\ CaseOf(reqs[s].ledgerResponse) # CaseOf(reqs[t].ledgerResponse) ) =>
              reqs[s].verification.error # reqs[t].verification.error

C5_Witness ==
    /\ reqs["r1"].resp.status = 403
    /\ reqs["r2"].resp.status = 403
    /\ CaseOf(reqs["r1"].ledgerResponse) = "wrong-kind"
    /\ CaseOf(reqs["r2"].ledgerResponse) = "wrong-target"

\* C6: verifyPayment returns valid:true exactly when the ledger's answer is
\* a successful contract call of the configured contract, and then the
\* payer identity is the transaction's sender address, which is not empty.
C6_ValidExactlyForPaymentCall ==
    \A s \in Slots :
        LET r == reqs[s]
        IN  VerificationDone(r) =>
              /\ r.verification.valid <=> IsPaymentCall(r.ledgerResponse)
              /\ r.verification.valid =>
                    /\ r.verification.caller = r.ledgerResponse.tx.sender_address
                    /\ NonEmpty(r.verification.caller)

C6_Witness ==
    \E s \in Slots :
        /\ VerificationDone(reqs[s])
        /\ reqs[s].verification.valid
        /\ reqs[s].verification.caller = PAYER

\* C7: whatever the ledger does (not found, any status, network error,
\* unparsable or null body), verifyPayment resolves to valid:true or to
\* valid:false with a non-empty reason; it never rejects, so no handler
\* fails because of the verification.
C7_AlwaysAVerdict ==
    \A s \in Slots :
        LET r == reqs[s]
        IN  /\ VerificationDone(r) =>
                  /\ ~r.verification.rejected
                  /\ \/ r.verification.valid = TRUE
                     \/ /\ r.verification.valid = FALSE
                        /\ NonEmpty(r.verification.error)
            /\ r.pc = "fault" => r.verification.valid

C7_Witness ==
    /\ reqs["r1"].ledgerResponse = NetworkError
    /\ reqs["r1"].resp.status = 403
    /\ reqs["r2"].ledgerResponse = InvalidJson
    /\ reqs["r2"].resp.status = 403

\* C8: verification consumes nothing: whenever the ledger answers the lookup
\* of a request with the record of a valid payment, the request verifies as
\* valid and gets past the gate, whatever other requests used the same
\* token before it or concurrently; it receives the resource of its
\* endpoint (given a body its handler can serve).
C8_ValidProofReusable ==
    \A s \in Slots :
        LET r == reqs[s]
        IN  ( /\ VerificationDone(r)
              /\ r.ledgerResponse = LedgerRecord(r.lookupTxid)
              /\ IsPaymentCall(r.ledgerResponse) ) =>
                /\ r.verification.valid
                /\ r.resp.status \notin {402, 403}
                /\ PastGate(r)
                /\ (r.pc = "done" /\ BodyServable(r)) =>
                      /\ r.resp.status = 200
                      /\ r.resp.json = payloadOf(r)

C8_Witness ==
    /\ served = 2
    /\ reqs["r1"].resp.status = 200
    /\ reqs["r2"].resp.status = 200
    /\ reqs["r1"].endpoint = "/alpha"
    /\ reqs["r2"].endpoint = "/peg-health"
    /\ normalizeTxid(reqs["r1"].xpayment) = normalizeTxid(reqs["r2"].xpayment)

----------------------------------------------------------------------------
\* Unicode case folding of one character (CaseFolding.txt, the common and
\* full mappings): what caseless matching compares
caseFoldChar(ch) ==
    IF \E i \in 1..26 : UpperChars[i] = ch
    THEN <<LowerChars[CHOOSE i \in 1..26 : UpperChars[i] = ch]>>
    ELSE CASE ch = "U+017F" -> <<"s">>
           [] ch = "U+00DF" -> <<"s", "s">>
           [] ch = "U+FB05" -> <<"s", "t">>
           [] ch = "U+212A" -> <<"k">>
           [] ch = "U+0130" -> <<"i", "U+0307">>
           [] ch = "U+00C9" -> <<"U+00E9">>
           [] OTHER         -> <<ch>>

RECURSIVE caseFold(_)
caseFold(s) ==
    IF s = <<>> THEN <<>> ELSE caseFoldChar(Head(s)) \o caseFold(Tail(s))

\* two strings are equal ignoring case: a caseless match
EqualsIgnoringCase(a, b) == caseFold(a) = caseFold(b)

\* a hint is supplied when the header or parameter is there with a value
Supplied(v) == v # Undefined /\ v # <<>>

\* the selection rule: the header when supplied, else the query parameter;
\* sBTC exactly when that value is "sbtc" ignoring case
SelectionRule(headerToken, queryToken) ==
    LET used == IF Supplied(headerToken) THEN headerToken ELSE queryToken
    IN  IF Supplied(used) /\ EqualsIgnoringCase(used, <<"s","b","t","c">>)
        THEN "sBTC" ELSE "STX"

\* C9: getPaymentTokenType yields a token type for every header and query
\* value, following the selection rule; the challenge built from it is the
\* sBTC one exactly when the rule says sBTC (a pegged price being passed).
C9_TokenTypeSelection ==
    call.op = "paymentRequired" =>
        /\ getPaymentTokenType(call.headerToken, call.queryToken) \in {"STX", "sBTC"}
        /\ getPaymentTokenType(call.headerToken, call.queryToken)
              = SelectionRule(call.headerToken, call.queryToken)
        /\ (call.result # NoResp /\ call.sbtcPrice # 0) =>
              ( "tokenType" \in DOMAIN call.result.json
                  <=> SelectionRule(call.headerToken, call.queryToken) = "sBTC" )

C9_Witness ==
    /\ call.op = "paymentRequired"
    /\ call.headerToken = <<"S","b","T","c">>
    /\ call.queryToken = <<"S","T","X">>
    /\ call.sbtcPrice # 0
    /\ call.result.status = 402
    /\ "tokenType" \in DOMAIN call.result.json

\* C10 (as claimed): the 402 body of every unauthenticated request to a
\* priced endpoint has a tokenType field equal to the resolved token type,
\* for STX as well as for sBTC.
C10_ChallengeNamesTokenType ==
    \A s \in Slots :
        LET r == reqs[s]
        IN  r.resp.status = 402 =>
              /\ "tokenType" \in DOMAIN r.resp.json
              /\ r.resp.json.tokenType = getPaymentTokenType(r.headerToken, r.queryToken)

\* C11: every challenge paymentRequired builds, the sBTC one as well as the
\* STX one, is a 402 whose body has a nonce (the UUID drawn for this call)
\* and an expiresAt that is exactly the creation time plus 600 seconds.
C11_NonceAndExpiry ==
    (call.op = "paymentRequired" /\ call.result # NoResp) =>
        LET json == call.result.json
        IN  /\ call.result.status = 402
            /\ "nonce" \in DOMAIN json
            /\ json.nonce = call.uuid
            /\ "expiresAt" \in DOMAIN json
            /\ json.expiresAt = call.now + 600 * 1000

C11_Witness ==
    /\ call.op = "paymentRequired"
    /\ call.result.status = 402
    /\ "tokenType" \in DOMAIN call.result.json
    /\ call.now = 1000
    /\ call.result.json.expiresAt = 601000
    /\ call.result.json.nonce = "uuid-2"

\* the amount a challenge body states, and the token it states it in: the
\* sBTC body has maxAmountRequired (a decimal string), the STX body has
\* payment.price (a number)
StatesAmount(json, token, amount) ==
    IF token = "sBTC"
    THEN /\ "tokenType" \in DOMAIN json
         /\ json.tokenType = "sBTC"
         /\ json.maxAmountRequired = numberToString(amount)
    ELSE /\ "payment" \in DOMAIN json
         /\ json.payment.token = "STX"
         /\ json.payment.price = amount

\* C12: the amount in the challenge of a priced endpoint is the price of the
\* endpoint's tier in the resolved token: 2000 (STX) or 2 (sBTC) on
\* /yield-opportunities and /peg-health, 5000 or 5 on /alpha, /simulate and
\* /agent-intel; with tokenType=sBTC as the only hint the body has
\* tokenType "sBTC" and the pegged price of the tier.
C12_ChallengeAmountIsTierPrice ==
    \A s \in Slots :
        LET r == reqs[s]
            token == SelectionRule(r.headerToken, r.queryToken)
            standard == r.endpoint \in {"/yield-opportunities", "/peg-health"}
        IN  r.resp.status = 402 =>
              /\ r.endpoint \in {"/yield-opportunities", "/peg-health",
                                 "/alpha", "/simulate", "/agent-intel"}
              /\ StatesAmount(r.resp.json, token,
                              IF token = "sBTC"
                              THEN (IF standard THEN 2 ELSE 5)
                              ELSE (IF standard THEN 2000 ELSE 5000))
              /\ (r.headerToken = Undefined /\ r.queryToken = <<"s","B","T","C">>) =>
                    /\ r.resp.json.tokenType = "sBTC"
                    /\ r.resp.json.maxAmountRequired = (IF standard THEN "2" ELSE "5")

C12_Witness ==
    /\ reqs["r1"].endpoint = "/peg-health"
    /\ reqs["r1"].headerToken = Undefined
    /\ reqs["r1"].queryToken = <<"s","B","T","C">>
    /\ reqs["r1"].resp.status = 402
    /\ reqs["r1"].resp.json.maxAmountRequired = "2"
    /\ reqs["r2"].endpoint = "/agent-intel"
    /\ reqs["r2"].queryToken = Undefined
    /\ reqs["r2"].resp.status = 402
    /\ reqs["r2"].resp.json.payment.price = 5000

\* the ledger's answer is the record of a successful sBTC transfer: a
\* successful call of the sBTC token contract the challenge names
IsSbtcTransfer(response) ==
    /\ IsRecord(response)
    /\ response.tx.tx_status = "success"
    /\ response.tx.tx_type = "contract_call"
    /\ response.tx.contract_id = SBTC.token

\* C13 (as claimed): a request whose X-Payment names a successful sBTC
\* transfer, the payment the sBTC challenge asks for, passes verification
\* and gets past the gate like one that names a successful STX contract call.
C13_SbtcPaymentAccepted ==
    \A s \in Slots :
        LET r == reqs[s]
        IN  ( /\ r.endpoint \in PricedEndpoints
              /\ VerificationDone(r)
              /\ r.ledgerResponse = LedgerRecord(r.lookupTxid)
              /\ \/ IsPaymentCall(r.ledgerResponse)
                 \/ IsSbtcTransfer(r.ledgerResponse) ) =>
                /\ r.verification.valid
                /\ r.resp.status \notin {402, 403}

\* C14: a request to GET /, GET /health or GET /overview, with or without
\* an X-Payment header, is never answered 402 or 403 and never causes a
\* ledger transaction lookup or a verification; its answer is 200.
C14_FreeEndpointsNeverGated ==
    \A s \in Slots :
        LET r == reqs[s]
        IN  r.endpoint \in {"/", "/health", "/overview"} =>
              /\ r.resp.status \notin {402, 403}
              /\ r.lookups = 0
              /\ r.lookupTxid = <<>>
              /\ r.pc # "verify"
              /\ ~VerificationDone(r)
              /\ r.pc = "done" => r.resp.status = 200

C14_Witness ==
    /\ reqs["r1"].endpoint = "/overview"
    /\ reqs["r1"].xpayment = TX_PAID
    /\ reqs["r1"].resp.status = 200
    /\ reqs["r2"].endpoint = "/health"
    /\ reqs["r2"].xpayment = Undefined
    /\ reqs["r2"].resp.status = 200

\* what a request consists of and what the external services answered it
SameRequest(a, b) ==
    /\ a.endpoint = b.endpoint
    /\ a.xpayment = b.xpayment
    /\ a.headerToken = b.headerToken
    /\ a.queryToken = b.queryToken
    /\ a.accept = b.accept
    /\ a.ledgerResponse = b.ledgerResponse
    /\ a.body = b.body

\* a step of the handler of one request leaves every other request as it is
OnlyOwnRequestChanges ==
    \A s, t \in Slots :
        (s # t /\ reqs'[s] # reqs[s]) => reqs'[t] = reqs[t]

\* C15: no state is carried across requests: two answered requests that are
\* the same request and got the same answers from the external services
\* have the same response, whatever was handled before either of them or
\* concurrently; and a handler step changes nothing but its own request.
C15_NoStateAcrossRequests ==
    /\ [](\A s, t \in Slots :
             ( /\ Answered(reqs[s]) /\ Answered(reqs[t])
               /\ SameRequest(reqs[s], reqs[t]) ) =>
                 reqs[s].resp = reqs[t].resp)
    /\ [][OnlyOwnRequestChanges]_vars

C15_Witness ==
    /\ served = 2
    /\ reqs["r1"].pc = "done"
    /\ reqs["r2"].pc = "done"
    /\ reqs["r1"].endpoint = "/peg-health"
    /\ reqs["r1"].resp.status = 402
    /\ SameRequest(reqs["r1"], reqs["r2"])
    /\ reqs["r1"].resp = reqs["r2"].resp

\* C16 (as claimed): when the ledger lookup fails with a network error
\* (fetch throws), verifyPayment fails with the same reason as when the
\* ledger reports no such transaction.
C16_NetworkErrorIsNotFound ==
    \A s \in Slots :
        LET r == reqs[s]
        IN  (VerificationDone(r) /\ r.ledgerResponse.rejected) =>
              /\ r.verification.valid = FALSE
              /\ r.verification.error = "Transaction not found"
              /\ r.verification.error = verifyPayment(r.xpayment, HttpNotOk).error

\* C16 (amended): when the ledger lookup fails with a network error,
\* verifyPayment fails with the generic reason "Verification failed: "
\* followed by the text of the error, which is not the reason given when the
\* ledger reports no such transaction; the request is answered 403 with it.
C16_NetworkErrorIsGenericFailure ==
    \A s \in Slots :
        LET r == reqs[s]
        IN  (VerificationDone(r) /\ r.ledgerResponse.rejected) =>
              /\ r.verification.valid = FALSE
              /\ r.verification.error =
                    "Verification failed: " \o thrownText(r.ledgerResponse)
              /\ r.verification.error # verifyPayment(r.xpayment, HttpNotOk).error
              /\ verifyPayment(r.xpayment, HttpNotOk).error = "Transaction not found"
              /\ r.resp.status = 403
              /\ r.resp.json.details = r.verification.error

C16_Witness ==
    \E s \in Slots :
        /\ reqs[s].xpayment = TX_PAID
        /\ reqs[s].ledgerResponse = NetworkError
        /\ reqs[s].resp.status = 403
        /\ reqs[s].resp.json.details =
              "Verification failed: " \o thrownText(NetworkError)
        /\ reqs[s].resp.json.details # "Transaction not found"

\* C17: the verdict on a proof token depends on the ledger's answer only:
\* two requests whose lookups got the same answer get the same verdict,
\* whichever priced endpoints (and so prices) they ask for, whatever token
\* type they name, whether or not a challenge was issued before, and whether
\* they arrive before or after the expiresAt of the challenges issued.
C17_VerdictDependsOnLedgerOnly ==
    \A s, t \in Slots :
        ( /\ VerificationDone(reqs[s]) /\ VerificationDone(reqs[t])
          /\ reqs[s].ledgerResponse = reqs[t].ledgerResponse ) =>
            /\ reqs[s].verification = reqs[t].verification
            /\ reqs[s].verification.valid =>
                  (reqs[s].resp.status \notin {402, 403} /\ reqs[t].resp.status \notin {402, 403})

C17_Witness ==
    /\ call.op = "clock"
    /\ call.issued = {600000}
    /\ reqs["r1"].endpoint = "/simulate"
    /\ reqs["r1"].queryToken = Undefined
    /\ call.at["r1"] = 0
    /\ reqs["r1"].verification.valid
    /\ reqs["r2"].endpoint = "/yield-opportunities"
    /\ reqs["r2"].queryToken = <<"s","B","T","C">>
    /\ call.at["r2"] > 600000
    /\ reqs["r2"].verification.valid
    /\ reqs["r2"].resp.status = 200
    /\ reqs["r1"].xpayment = reqs["r2"].xpayment

\* C18 (as claimed): no request ends in an unhandled fault: whatever the
\* client sends and the external services answer, a request that is
\* answered got a success response or a structured 4xx response, never the
\* framework's 500 for an exception that escaped the handler.
C18_NoUnhandledFault ==
    \A s \in Slots :
        LET r == reqs[s]
        IN  /\ r.pc # "fault"
            /\ r.resp # InternalServerError
            /\ Answered(r) => (r.resp.status = 200 \/ r.resp.status \in 400..499)

\* C19 (as claimed): every request that waits for an external service (the
\* ledger lookup, the upstream data fetches) eventually has its response,
\* also when the service never answers: the call is cut by a timeout.
C19_EveryRequestAnswered ==
    \A s \in Slots :
        (reqs[s].pc \in {"verify", "verifyJson", "readBody", "gather"})
            ~> Answered(reqs[s])

\* the service did not give the value: the call failed or the field is absent
OracleFailed(oracle) == oracle.kind # "object" \/ oracle.usd = 0
TokenFailed(token)   == token.kind # "object"
MarketFailed(market) == market.kind # "object"

\* what fetchBtcPrice() is to return for the oracle's answer
OracleValue(oracle) == IF OracleFailed(oracle) THEN 97000 ELSE oracle.usd

\* C20: a failing upstream call never fails the response of GET /overview:
\* it is 200, with supply and holders 0 when the token-metrics call failed,
\* with volume 0 and the price oracle's value as the sBTC price when the
\* market-data call failed, the price oracle's value being 97000 when the
\* oracle failed or gave no price.  The peg is healthy at ratio 1 when its
\* market-data call failed and its two oracle calls gave the same value.
C20_UpstreamFailuresFallBack ==
    (call.op = "overview" /\ call.result # NoResp) =>
        LET sbtc == call.result.json.sbtc
        IN  /\ call.result.status = 200
            /\ TokenFailed(call.token.answer) =>
                  (sbtc.totalSupply = 0 /\ sbtc.holders = 0)
            /\ MarketFailed(call.market.answer) =>
                  /\ sbtc.volume24h = 0
                  /\ sbtc.priceUsd = OracleValue(call.fallback.answer)
            /\ ( /\ MarketFailed(call.pegMarket.answer)
                 /\ OracleValue(call.pegFallback.answer)
                       = OracleValue(call.oracle.answer) ) =>
                  /\ sbtc.pegHealth.pegStatus = "healthy"
                  /\ sbtc.pegHealth.ratio = 1000000
            /\ call.result.json.ecosystem.protocolCount = 4

C20_Witness ==
    /\ call.op = "overview"
    /\ call.oracle.answer = OracleRejected
    /\ call.token.answer = TokenInvalid
    /\ call.market.answer = MarketRejected
    /\ call.fallback.answer = OracleRejected
    /\ call.pegMarket.answer = MarketNull
    /\ call.pegFallback.answer = OracleRejected
    /\ call.fetches = 7
    /\ call.result.status = 200
    /\ call.result.json.sbtc.priceUsd = 97000
    /\ call.result.json.sbtc.totalSupply = 0
    /\ call.result.json.sbtc.volume24h = 0
    /\ call.result.json.sbtc.pegHealth.ratio = 1000000

\* the fields of the two challenge bodies
BaseFields   == {"error", "code", "resource", "nonce", "expiresAt", "network"}
PeggedFields == BaseFields \cup {"maxAmountRequired", "payTo", "tokenType",
                                 "tokenContract", "instructions"}
NativeFields == BaseFields \cup {"payment", "paymentOptions", "instructions"}

\* C21: paymentRequired emits the sBTC challenge (tokenType "sBTC", the
\* pegged amount, payTo the recipient, the sign / include / verify
\* instructions) exactly when the selection rule gives sBTC and a pegged
\* price was passed; in every other case, sBTC requested without a pegged
\* price included, it emits the STX challenge with the payment contract's
\* identifiers, paymentOptions and the call / wait / retry instructions.
C21_BranchOfChallenge ==
    (call.op = "paymentRequired" /\ call.result # NoResp) =>
        LET json   == call.result.json
            pegged == /\ SelectionRule(call.headerToken, call.queryToken) = "sBTC"
                      /\ call.sbtcPrice # 0
        IN  /\ call.result.status = 402
            /\ pegged =>
                  /\ DOMAIN json = PeggedFields
                  /\ json.tokenType = "sBTC"
                  /\ json.maxAmountRequired = numberToString(call.sbtcPrice)
                  /\ json.payTo = "SPKH9AWG0ENZ87J1X0PBD4HETP22G8W22AFNVF8K"
                  /\ json.tokenContract.token =
                        "SM3VDXK3WZZSA84XXFKAFAF15NNZX32CTSG82JFQ4.sbtc-token"
                  /\ json.instructions = <<"sign-transfer", "include-signed-hex",
                                           "broadcast-and-verify">>
            /\ ~pegged =>
                  /\ DOMAIN json = NativeFields
                  /\ json.payment.contract =
                        "SPP5ZMH9NQDFD2K5CEQZ6P02AP8YPWMQ75TJW20M.simple-oracle"
                  /\ json.payment.function = "call-with-stx"
                  /\ json.payment.token = "STX"
                  /\ json.payment.price = call.price
                  /\ json.instructions = <<"call-contract", "wait-confirmation",
                                           "retry-with-txid">>

\* sBTC requested and no pegged price passed: the STX challenge
C21_Witness ==
    /\ call.op = "paymentRequired"
    /\ call.headerToken = <<"s","B","T","C">>
    /\ call.sbtcPrice = 0
    /\ call.result.status = 402
    /\ "payment" \in DOMAIN call.result.json
    /\ "tokenType" \notin DOMAIN call.result.json

\* the least whole number of thousands that is not less than amount
CeilOfThousandth(amount) ==
    CHOOSE n \in 0..amount : n * 1000 >= amount /\ (n = 0 \/ (n - 1) * 1000 < amount)

\* C22: in the STX challenge paymentOptions shows both denominations: the
\* STX amount is the challenge's STX price, and the sBTC amount is the
\* pegged price that was passed or, when none was passed, the STX price
\* divided by 1000 and rounded up.
C22_PaymentOptionsAmounts ==
    ( /\ call.op = "paymentRequired" /\ call.result # NoResp
      /\ "paymentOptions" \in DOMAIN call.result.json ) =>
        LET json == call.result.json
        IN  /\ DOMAIN json.paymentOptions = {"stx", "sbtc"}
            /\ json.paymentOptions.stx.price = call.price
            /\ json.paymentOptions.stx.price = json.payment.price
            /\ call.sbtcPrice # 0 => json.paymentOptions.sbtc.price = call.sbtcPrice
            /\ call.sbtcPrice = 0 =>
                  json.paymentOptions.sbtc.price = CeilOfThousandth(call.price)

C22_Witness ==
    /\ call.op = "paymentRequired"
    /\ call.price = 2001
    /\ call.sbtcPrice = 0
    /\ call.result.status = 402
    /\ call.result.json.paymentOptions.stx.price = 2001
    /\ call.result.json.paymentOptions.sbtc.price = 3

\* between its arrival and its delivery a request issues no lookup, and the
\* answer to its one lookup, once it gives a failure, ends it with the
\* rejection
NoFurtherLookup ==
    \A s \in Slots :
        /\ (reqs[s].pc # "idle" /\ reqs'[s].pc # "idle") =>
              reqs'[s].lookups = reqs[s].lookups
        /\ (reqs[s].pc \in {"verify", "verifyJson"} /\ reqs'[s] # reqs[s]) =>
              /\ reqs'[s].pc = "verifyJson" \/ VerificationDone(reqs'[s])
              /\ (VerificationDone(reqs'[s]) /\ ~reqs'[s].verification.valid) =>
                    (reqs'[s].pc = "done" /\ reqs'[s].resp.status = 403)

\* C23: the server never retries a verification: a request with a proof
\* token to a priced endpoint has issued exactly one ledger lookup, at its
\* arrival, and issues none afterwards; once the lookup has yielded a
\* failure the request is answered 403 with that failure.
C23_OneLookupNoRetry ==
    /\ [](\A s \in Slots :
             LET r == reqs[s]
             IN  /\ r.lookups \in {0, 1}
                 /\ (r.endpoint \in PricedEndpoints /\ Truthy(r.xpayment)) => r.lookups = 1
                 /\ (VerificationDone(r) /\ ~r.verification.valid) =>
                       /\ r.lookups = 1
                       /\ r.pc = "done"
                       /\ r.resp = Forbidden(verifyPayment(r.xpayment, r.ledgerResponse)))
    /\ [][NoFurtherLookup]_vars

C23_Witness ==
    \E s \in Slots :
        /\ reqs[s].endpoint = "/peg-health"
        /\ reqs[s].xpayment = TX_PAID
        /\ reqs[s].ledgerResponse = NetworkError
        /\ reqs[s].lookups = 1
        /\ reqs[s].resp.status = 403

\* the token starts with the two characters 0 and x
HasHexPrefix(t) == Len(t) >= 2 /\ t[1] = "0" /\ t[2] = "x"

\* C24: a token that does not start with "0x" and the same token with "0x"
\* before it are looked up under the same identifier, the prefixed one, and
\* get the same verdict; a token that starts with "0x" is looked up as it
\* is; normalizing what was normalized changes nothing.
C24_PrefixAddedOnlyWhenMissing ==
    (call.op = "normalize" /\ call.calls.given.phase # "idle") =>
        LET t        == call.txid
            given    == call.calls.given
            prefixed == call.calls.prefixed
        IN  /\ ~HasHexPrefix(t) =>
                  /\ given.lookup = <<"0","x">> \o t
                  /\ prefixed.phase # "idle" => prefixed.lookup = given.lookup
                  /\ (given.phase = "returned" /\ prefixed.phase = "returned") =>
                        prefixed.result = given.result
            /\ HasHexPrefix(t) => given.lookup = t
            /\ HasHexPrefix(given.lookup)
            /\ normalizeTxid(given.lookup) = given.lookup
            /\ normalizeTxid(normalizeTxid(t)) = normalizeTxid(t)

C24_Witness ==
    /\ call.op = "normalize"
    /\ call.txid = <<"0","X","a">>
    /\ call.calls.given.lookup = <<"0","x","0","X","a">>
    /\ call.calls.prefixed.lookup = call.calls.given.lookup
    /\ call.calls.given.phase = "returned"
    /\ call.calls.prefixed.phase = "returned"
    /\ call.calls.given.result.valid
    /\ call.calls.prefixed.result.valid

\* C25: the checks are made in the order found, status, kind, target, and
\* the first that fails gives the reason: an answer that is not ok is "not
\* found" whatever its body; a status other than success gives the status
\* reason whatever the kind and the target; a kind other than contract call
\* gives the kind reason whatever the target; the target reason is given
\* only when status and kind pass.
C25_FirstFailingCheckDecides ==
    (call.op = "verify" /\ call.calls.given.phase = "returned") =>
        LET a  == call.response
            tx == a.tx
            result == call.calls.given.result
            reason == result.error
            paymentContract == "SPP5ZMH9NQDFD2K5CEQZ6P02AP8YPWMQ75TJW20M.simple-oracle"
        IN  /\ ~a.ok => (~result.valid /\ reason = "Transaction not found")
            /\ (a.ok /\ tx.tx_status # "success") =>
                  /\ ~result.valid
                  /\ reason = "Transaction status: " \o
                        (IF tx.tx_status = UndefinedStr THEN "undefined" ELSE tx.tx_status)
            /\ (a.ok /\ tx.tx_status = "success" /\ tx.tx_type # "contract_call") =>
                  (~result.valid /\ reason = "Not a contract call")
            /\ ( /\ a.ok /\ tx.tx_status = "success" /\ tx.tx_type = "contract_call"
                 /\ tx.contract_id # paymentContract ) =>
                  (~result.valid /\ reason = "Wrong contract")
            /\ reason = "Wrong contract" =>
                  (tx.tx_status = "success" /\ tx.tx_type = "contract_call")
            /\ reason = "Not a contract call" => tx.tx_status = "success"

\* a pending call of another contract: two checks fail, the status decides
C25_Witness ==
    /\ call.op = "verify"
    /\ call.response.ok
    /\ call.response.tx.tx_status = "pending"
    /\ call.response.tx.tx_type = "contract_call"
    /\ call.response.tx.contract_id = "SM3VDXK3WZZSA84XXFKAFAF15NNZX32CTSG82JFQ4.sbtc-token"
    /\ call.calls.given.phase = "returned"
    /\ call.calls.given.result.error = "Transaction status: pending"

====
